---- MODULE Spec2Model ----
(***************************************************************************)
(* Model of the extract-shipment-data edge function of ship-parse-flow     *)
(* (the serve handler) running against the record store's two tables,      *)
(* parsing_logs and shipment_orders.  Each invocation of the handler is a   *)
(* process; an action is the code between two awaits, taken together with   *)
(* the single store operation or outbound call the first await waits for.   *)
(* Two further specifications put the handler behind the components that    *)
(* use it: SpecTable, the shipments table with its edit dialog, and         *)
(* SpecUpload, the upload component that sends the extraction requests.     *)
(***************************************************************************)
EXTENDS Integers, Sequences, FiniteSets, TLC

\* ------------------------------------------------------------------ bounds
\* Number of handler invocations that may run concurrently.
NumInvocations == 2

\* Number of edit-form field changes a user makes in one run.
MaxFormChanges == 1

\* Number of fetchShipments calls the Dashboard makes in one run.
MaxFetches == 3

\* Number of fetchParsingLogs and fetchSystemStats calls the panel makes in one run.
MaxPanelCalls == 4

\* Length of the search terms typed, and of the lists the table is given.
MaxTermLen == 2
MaxRows == 3

\* Largest number of successful, and of failed, attempts the panel is shown.
MaxCount == 23

Invocations == 1..NumInvocations

\* ------------------------------------------------------ JSON values (JS)
Keys == {"customer_name", "address", "tracking_id", "delivery_date",
         "package_weight", "notes"}

\* A member of a parsed object: absent (JS undefined), null, a string or a
\* number.  Numbers are fixed-point, in thousandths (2.5 kg is 2500).
Absent  == [t |-> "absent", s |-> "", n |-> 0]
JNull   == [t |-> "null",   s |-> "", n |-> 0]
JStr(x) == [t |-> "str",    s |-> x,  n |-> 0]
JNum(x) == [t |-> "num",    s |-> "", n |-> x]

NoMembers == [k \in Keys |-> Absent]

\* A JSON value as JSON.parse returns it, and the shapes the jsonb column
\* extracted_data holds: t is one of "undefined" (nothing parsed yet),
\* "sqlnull" (column never written), "null", "str", "num", "array",
\* "object", "raw" (the object {raw_response: <text>}).
Val(t, s, n, o, raw) == [t |-> t, s |-> s, n |-> n, o |-> o, raw |-> raw]
Undefined    == Val("undefined", "", 0, NoMembers, <<>>)
SqlNull      == Val("sqlnull", "", 0, NoMembers, <<>>)
VScalar(sc)  == Val(sc.t, sc.s, sc.n, NoMembers, <<>>)
VArray       == Val("array", "", 0, NoMembers, <<>>)
VObject(o)   == Val("object", "", 0, o, <<>>)
RawResponse(text) == Val("raw", "", 0, NoMembers, text)

\* ------------------------------------------------- upstream output text
\* The completion's message content is a sequence of lexical tokens.
Tok(k, s, n) == [k |-> k, s |-> s, n |-> n]
LB    == Tok("{", "", 0)
RB    == Tok("}", "", 0)
LSq   == Tok("[", "", 0)
RSq   == Tok("]", "", 0)
Colon == Tok(":", "", 0)
Comma == Tok(",", "", 0)
TNull == Tok("null", "", 0)
S(x)  == Tok("str", x, 0)
N(x)  == Tok("num", "", x)
W(x)  == Tok("word", x, 0)

IsScalarTok(tok) == tok.k \in {"str", "num", "null"}
ScalarOf(tok)    == [t |-> tok.k, s |-> tok.s, n |-> tok.n]

ParseFail  == [ok |-> FALSE, value |-> Undefined]
ParseOk(v) == [ok |-> TRUE, value |-> v]

\* Members of a flat object, from token i on: key ":" scalar, then "}" at
\* the very end or "," and more members.  A repeated key keeps the last
\* value, as JSON.parse does.
RECURSIVE ParseMembers(_, _, _)
ParseMembers(toks, i, acc) ==
  IF i + 3 > Len(toks) THEN ParseFail
  ELSE IF toks[i].k # "str" \/ toks[i+1].k # ":" \/ ~IsScalarTok(toks[i+2])
  THEN ParseFail
  ELSE LET acc2 == IF toks[i].s \in Keys
                   THEN [acc EXCEPT ![toks[i].s] = ScalarOf(toks[i+2])]
                   ELSE acc
       IN  IF toks[i+3].k = "}"
           THEN IF i + 3 = Len(toks) THEN ParseOk(VObject(acc2)) ELSE ParseFail
           ELSE IF toks[i+3].k = ","
           THEN ParseMembers(toks, i + 4, acc2)
           ELSE ParseFail

\* JSON.parse on the fragment of JSON the upstream texts are drawn from:
\* a scalar, the empty array, or an object whose members are scalars.
JSONParse(toks) ==
  IF Len(toks) = 0 THEN ParseFail
  ELSE IF Len(toks) = 1
  THEN IF IsScalarTok(toks[1]) THEN ParseOk(VScalar(ScalarOf(toks[1]))) ELSE ParseFail
  ELSE IF toks[1].k = "["
  THEN IF Len(toks) = 2 /\ toks[2].k = "]" THEN ParseOk(VArray) ELSE ParseFail
  ELSE IF toks[1].k = "{"
  THEN IF Len(toks) = 2 /\ toks[2].k = "}" THEN ParseOk(VObject(NoMembers))
       ELSE ParseMembers(toks, 2, NoMembers)
  ELSE ParseFail

\* Property access v.key in JS: a TypeError on null, undefined on every
\* other value that has no such member.
ThrowsOnAccess(v) == v.t \in {"null", "undefined"}
Get(v, key) == IF v.t = "object" THEN v.o[key] ELSE Absent

\* JS truthiness of a member, and the expression  x || null.
Truthy(sc) == CASE sc.t = "str" -> sc.s # ""
                [] sc.t = "num" -> sc.n # 0
                [] OTHER -> FALSE
OrNull(sc) == IF Truthy(sc) THEN sc ELSE JNull

\* The required-field check with && written for ||.
MissingRequired_BothMissing(v) ==
  ~Truthy(Get(v, "customer_name")) /\ ~Truthy(Get(v, "address"))

\* !extractedData.customer_name || !extractedData.address
MissingRequired(v) == ~Truthy(Get(v, "customer_name")) \/ ~Truthy(Get(v, "address"))


\* --------------------------------------------------------------- inputs
NULL == "<null>"

\* Bodies of the requests: {fileContent, fileName, fileUrl}.  A file upload
\* carries the file's public URL, pasted text carries fileUrl null; a body
\* without fileName is what any other client may post.
FileRequest ==
  [fileContent |-> "Ship to Jane Doe, 12 Oak St, tracking XZ100, 2.5kg",
   fileName |-> "order.txt", fileUrl |-> "https://files/shipment-files/1-order.txt"]
EmailRequest ==
  [fileContent |-> "Ship to Jane Doe, 12 Oak St, tracking XZ100, 2.5kg",
   fileName |-> "email-1.txt", fileUrl |-> NULL]
NamelessRequest ==
  [fileContent |-> "Ship to Jane Doe, 12 Oak St, tracking XZ100, 2.5kg",
   fileName |-> NULL, fileUrl |-> NULL]
\* Odd invocations serve file uploads, even ones pasted text.
Requests(i) == {IF i % 2 = 1 THEN FileRequest ELSE EmailRequest, NamelessRequest}
NoRequest == [fileContent |-> "", fileName |-> NULL, fileUrl |-> NULL]

Member(k, v) == <<S(k), Colon, v>>

TextSorry     == <<W("Sorry,"), W("I"), W("cannot"), W("process"), W("this.")>>
TextTruncated == <<LB>> \o Member("customer_name", S("Jane Doe")) \o <<Comma>>
TextNull      == <<TNull>>
TextArray     == <<LSq, RSq>>
TextNumber    == <<N(5000)>>
TextString    == <<S("Jane Doe, 12 Oak St")>>
TextNoName    == <<LB>> \o Member("address", S("12 Oak St")) \o <<RB>>
TextEmptyAddr == <<LB>> \o Member("customer_name", S("Jane Doe")) \o <<Comma>>
                   \o Member("address", S("")) \o <<RB>>
TextJane      == <<LB>> \o Member("customer_name", S("Jane Doe")) \o <<Comma>>
                   \o Member("address", S("12 Oak St")) \o <<Comma>>
                   \o Member("tracking_id", S("XZ100")) \o <<Comma>>
                   \o Member("package_weight", N(2500)) \o <<RB>>
TextZero      == <<LB>> \o Member("customer_name", S("Ann Lee")) \o <<Comma>>
                   \o Member("address", S("3 Elm Rd")) \o <<Comma>>
                   \o Member("package_weight", N(0)) \o <<Comma>>
                   \o Member("notes", S("")) \o <<RB>>
TextFull      == <<LB>> \o Member("customer_name", S("Bob Ray")) \o <<Comma>>
                   \o Member("address", S("9 Pine Ave")) \o <<Comma>>
                   \o Member("tracking_id", TNull) \o <<Comma>>
                   \o Member("delivery_date", S("2025-09-01")) \o <<Comma>>
                   \o Member("package_weight", N(2555)) \o <<Comma>>
                   \o Member("notes", S("fragile")) \o <<RB>>

\* The texts the mocked upstream may answer with.
UpstreamTexts == {TextSorry, TextTruncated, TextNull, TextArray, TextNumber,
                  TextString, TextNoName, TextEmptyAddr, TextJane, TextZero,
                  TextFull}

\* Non-success HTTP statuses of the outbound call.
UpstreamErrorStatuses == {429, 500}

\* ------------------------------------------------------------- messages
MsgBadBody     == "Unexpected end of JSON input"
MsgLogError    == "null value in column file_name violates not-null constraint"
MsgFetchThrew  == "error sending request"
MsgDecodeThrew == "Unexpected token < in JSON"
MsgTypeError   == "Cannot read properties of null (reading 'customer_name')"
MsgNotJson     == "AI response was not valid JSON"
MsgParseFailed == "Failed to parse AI response as JSON"
MsgMissing     == "Missing required fields: customer_name and address"
MsgShipmentError == "shipment_orders insert rejected"
UpstreamMsg(status) == "OpenAI API error: " \o ToString(status)

\* ---------------------------------------------------------- record store
\* numeric(10,2): a non-negative value in thousandths rounded to hundredths.
RoundHundredths(n) == ((n + 5) \div 10) * 10
AsNumeric(sc) == IF sc.t = "num" THEN JNum(RoundHundredths(sc.n)) ELSE sc

NoShipment == [id |-> 0, customer_name |-> JNull, address |-> JNull,
               tracking_id |-> JNull, delivery_date |-> JNull,
               package_weight |-> JNull, notes |-> JNull,
               original_file_url |-> NULL, original_file_name |-> NULL,
               parsed_by_ai |-> FALSE, status |-> NULL]

\* The row parsing_logs gets for insert({file_name, file_url, status}).
NewLogRow(id, fields) ==
  [id |-> id, file_name |-> fields.file_name, file_url |-> fields.file_url,
   status |-> fields.status, error_message |-> NULL, extracted_data |-> SqlNull]

\* file_name text NOT NULL
LogInsertAllowed(fields) == fields.file_name # NULL

\* update(patch).eq('id', id): the columns of the patch replace the row's.
ApplyPatch(row, patch) ==
  [c \in DOMAIN row |-> IF c \in DOMAIN patch THEN patch[c] ELSE row[c]]

\* The update with its .eq('id', ...) filter left out: every row is patched.
UpdateLogs_AllRows(logs, id, patch) ==
  [k \in DOMAIN logs |-> ApplyPatch(logs[k], patch)]

\* The update filtered by the attempt's file name instead of its id.
UpdateLogs_ByFileName(logs, id, patch) ==
  [k \in DOMAIN logs |->
     IF \E j \in DOMAIN logs : logs[j].id = id /\ logs[j].file_name = logs[k].file_name
     THEN ApplyPatch(logs[k], patch) ELSE logs[k]]

UpdateLogs(logs, id, patch) ==
  [k \in DOMAIN logs |-> IF logs[k].id = id THEN ApplyPatch(logs[k], patch) ELSE logs[k]]

\* The row shipment_orders gets for the handler's insert.
NewShipmentRow(id, f) ==
  [id |-> id, customer_name |-> f.customer_name, address |-> f.address,
   tracking_id |-> f.tracking_id, delivery_date |-> f.delivery_date,
   package_weight |-> AsNumeric(f.package_weight), notes |-> f.notes,
   original_file_url |-> f.original_file_url,
   original_file_name |-> f.original_file_name,
   parsed_by_ai |-> f.parsed_by_ai, status |-> f.status]

\* ------------------------------------------------- the handler's values
\* The object the handler inserts into shipment_orders.
ShipmentFields(data, r) ==
  [customer_name |-> Get(data, "customer_name"),
   address |-> Get(data, "address"),
   tracking_id |-> OrNull(Get(data, "tracking_id")),
   delivery_date |-> OrNull(Get(data, "delivery_date")),
   package_weight |-> OrNull(Get(data, "package_weight")),
   notes |-> OrNull(Get(data, "notes")),
   original_file_url |-> r.fileUrl,
   original_file_name |-> r.fileName,
   parsed_by_ai |-> TRUE,
   status |-> "pending"]

LogFields(r) == [file_name |-> r.fileName, file_url |-> r.fileUrl, status |-> "processing"]

PatchParseFailed(text) ==
  [status |-> "failed", error_message |-> MsgParseFailed, extracted_data |-> RawResponse(text)]
PatchMissing(data) ==
  [status |-> "failed", error_message |-> MsgMissing, extracted_data |-> data]
PatchStoreFailed(msg, data) ==
  [status |-> "failed", error_message |-> msg, extracted_data |-> data]
\* The success update written with the failure branch's status.
PatchSuccess_AsFailed(data) ==
  [status |-> "failed", extracted_data |-> data]
PatchSuccess(data) ==
  [status |-> "success", extracted_data |-> data]

NoResponse == [status |-> 0, success |-> FALSE, error |-> NULL,
               shipmentOrder |-> NoShipment, extractedData |-> Undefined]
PreflightResponse == [NoResponse EXCEPT !.status = 200]
\* The catch's Response without its `status: 500`.
ErrorResponse_Status200(msg) == [NoResponse EXCEPT !.status = 200, !.error = msg]
ErrorResponse(msg) == [NoResponse EXCEPT !.status = 500, !.error = msg]
SuccessResponse(row, data) ==
  [status |-> 200, success |-> TRUE, error |-> NULL,
   shipmentOrder |-> row, extractedData |-> data]

\* ---------------------------------------------------------------- state
VARIABLES
  pc,              \* where each invocation stands
  req,             \* { fileContent, fileName, fileUrl } of the request
  logData,         \* id of the parsing_logs row the insert returned, 0 if none
  extractedText,   \* aiResponse.choices[0].message.content
  extractedData,   \* JSON.parse(extractedText)
  shipmentData,    \* the shipment_orders row the insert returned
  shipmentError,   \* message of the shipment insert's error
  response,        \* the Response the handler returned
  exitPath,        \* which return or throw ended the invocation
  parsing_logs,    \* the table, a sequence of rows; the id is the position
  shipment_orders, \* the table, a sequence of rows; the id is the position
  hist,            \* per invocation: what it has done so far
  shipments,       \* Dashboard: the list handed to ShipmentTable
  editingShipment, \* ShipmentTable: the row being edited, NoShipment for null
  editForm,        \* ShipmentTable: the edit form's seven fields
  saving,          \* ShipmentTable: handleSave is running
  saveCall,        \* ShipmentTable: the update handleSave awaits
  formChanges,     \* number of field changes made so far
  uploading,       \* FileUpload: a flow is running
  progress,        \* FileUpload: the progress bar's value
  processingState, \* FileUpload: idle, uploading, extracting, complete, error
  emailContent,    \* FileUpload: the pasted text
  upc,             \* FileUpload: the await the running flow stands at
  cur,             \* the running flow, 0 when none runs
  fileRef,         \* the running flow's fileUrl, "" when it has none
  fileText,        \* the running flow's fileContent
  timers,          \* number of scheduled resets that have not fired yet
  toasts,          \* the toast each flow has raised
  storage,         \* paths of the objects in the bucket shipment-files
  flow,            \* per flow: its kind and what it has done so far
  saveResult,      \* ShipmentTable: how the handleSave that settled last ended
  mounted,         \* Dashboard: the mount effect has run
  loading,         \* Dashboard: the loading flag
  fetches,         \* Dashboard: the fetchShipments calls that have not settled
  issued,          \* Dashboard: number of fetchShipments calls so far
  notifications,   \* Dashboard: change events of channel 'shipment_orders' not yet handled
  storeChanged,    \* shipment_orders changed after the last fetchShipments was issued
  fetchFailed,     \* Dashboard: some fetchShipments ended in its catch
  uploadsSeen,     \* invocations whose flow has called onUploadComplete
  parsingLogs,     \* MonitoringPanel: the listed attempts
  systemStats,     \* MonitoringPanel: the five counters
  panelMounted,    \* MonitoringPanel: the mount effect has run
  panelLoading,    \* MonitoringPanel: the loading flag
  panelCalls,      \* MonitoringPanel: the fetches that have not settled
  panelIssued,     \* MonitoringPanel: number of fetches started so far
  logEvents,       \* channel 'monitoring': parsing_logs events not yet handled
  shipEvents,      \* channel 'monitoring': shipment_orders events not yet handled
  queryFailed,     \* MonitoringPanel: the store answered one of its queries with an error
  searchTerm,      \* ShipmentTable: the search input
  statusFilter,    \* ShipmentTable: the status filter
  csv,             \* ShipmentTable: the rows of the last export
  successRate,     \* MonitoringPanel: the rendered success rate
  alerts           \* MonitoringPanel: the rendered alerts

vars == <<pc, req, logData, extractedText, extractedData, shipmentData,
          shipmentError, response, exitPath, parsing_logs, shipment_orders, hist>>

\* ShipmentTable and the Dashboard list before anything was fetched or edited.
tableVars == <<shipments, editingShipment, editForm, saving, saveCall, formChanges,
              saveResult>>

EditableColumns == {"customer_name", "address", "tracking_id", "delivery_date",
                    "package_weight", "notes", "status"}
NoForm == [c \in EditableColumns |-> IF c = "status" THEN NULL ELSE Absent]
NoSaveCall == [active |-> FALSE, id |-> 0, patch |-> NoForm]
NoSaveResult == [outcome |-> "none", refreshCalls |-> 0]

TableInit ==
  /\ shipments = <<>>
  /\ editingShipment = NoShipment
  /\ editForm = NoForm
  /\ saving = FALSE
  /\ saveCall = NoSaveCall
  /\ formChanges = 0
  /\ saveResult = NoSaveResult

\* FileUpload before anything was chosen or pasted.
uploadVars == <<uploading, progress, processingState, emailContent, upc, cur,
                fileRef, fileText, timers, toasts, storage, flow>>

NoToast == [title |-> NULL, description |-> NULL]
NoFlow == [kind |-> "none", uploads |-> 0, reads |-> 0, sent |-> 0, outcome |-> "none"]

UploadInit ==
  /\ uploading = FALSE
  /\ progress = 0
  /\ processingState = "idle"
  /\ emailContent = ""
  /\ upc = "idle"
  /\ cur = 0
  /\ fileRef = ""
  /\ fileText = ""
  /\ timers = 0
  /\ toasts = [i \in Invocations |-> NoToast]
  /\ storage = {}
  /\ flow = [i \in Invocations |-> NoFlow]

\* Dashboard's list fetches before the component has mounted.
dashVars == <<mounted, loading, fetches, issued, notifications, storeChanged,
              fetchFailed, uploadsSeen>>

DashInit ==
  /\ mounted = FALSE
  /\ loading = TRUE
  /\ fetches = {}
  /\ issued = 0
  /\ notifications = 0
  /\ storeChanged = FALSE
  /\ fetchFailed = FALSE
  /\ uploadsSeen = {}

\* MonitoringPanel before it has mounted.
monitorVars == <<parsingLogs, systemStats, panelMounted, panelLoading, panelCalls,
                 panelIssued, logEvents, shipEvents, queryFailed>>

NoStats == [totalShipments |-> 0, successfulParsing |-> 0, failedParsing |-> 0,
            processingParsing |-> 0, todayShipments |-> 0]

MonitorInit ==
  /\ parsingLogs = <<>>
  /\ systemStats = NoStats
  /\ panelMounted = FALSE
  /\ panelLoading = TRUE
  /\ panelCalls = {}
  /\ panelIssued = 0
  /\ logEvents = 0
  /\ shipEvents = 0
  /\ queryFailed = FALSE

\* ShipmentTable's search and filter, and what MonitoringPanel renders.
filterVars == <<searchTerm, statusFilter, csv>>
renderVars == <<successRate, alerts>>

FilterInit ==
  /\ searchTerm = <<>>
  /\ statusFilter = "all"
  /\ csv = <<>>

RenderInit ==
  /\ successRate = 0
  /\ alerts = {}

viewVars == <<dashVars, monitorVars, filterVars, renderVars>>
ViewInit == DashInit /\ MonitorInit /\ FilterInit /\ RenderInit

uiVars == <<tableVars, uploadVars, viewVars>>
allVars == <<vars, tableVars, uploadVars, viewVars>>

NoHist == [calls |-> 0, resolved |-> FALSE, loggedAtCall |-> FALSE,
           updIssued |-> 0, updApplied |-> 0, updBeforeResolve |-> FALSE,
           logInserts |-> 0, shipInserts |-> 0]

Init ==
  /\ pc = [i \in Invocations |-> "start"]
  /\ req = [i \in Invocations |-> NoRequest]
  /\ logData = [i \in Invocations |-> 0]
  /\ extractedText = [i \in Invocations |-> <<>>]
  /\ extractedData = [i \in Invocations |-> Undefined]
  /\ shipmentData = [i \in Invocations |-> NoShipment]
  /\ shipmentError = [i \in Invocations |-> NULL]
  /\ response = [i \in Invocations |-> NoResponse]
  /\ exitPath = [i \in Invocations |-> "none"]
  /\ parsing_logs = <<>>
  /\ shipment_orders = <<>>
  /\ hist = [i \in Invocations |-> NoHist]
  /\ TableInit
  /\ UploadInit
  /\ ViewInit

\* The handler returns `resp`, having left by `path`.
Return(i, resp, path) ==
  /\ pc' = [pc EXCEPT ![i] = "done"]
  /\ response' = [response EXCEPT ![i] = resp]
  /\ exitPath' = [exitPath EXCEPT ![i] = path]

\* catch (error): HTTP 500 with { success: false, error: error.message }.
Catch(i, msg, path) == Return(i, ErrorResponse(msg), path)

\* ----------------------------------------------------- record store ops
\* insert(fields).select().single() on parsing_logs, accepted: the new row
\* is in the table and is what the handler gets as logData.
LogInsertAccepted(i) ==
  /\ LogInsertAllowed(LogFields(req[i]))
  /\ parsing_logs' = Append(parsing_logs, NewLogRow(Len(parsing_logs) + 1, LogFields(req[i])))
  /\ logData' = [logData EXCEPT ![i] = Len(parsing_logs) + 1]

\* update(patch).eq('id', logData.id) on parsing_logs: the store applies it,
\* or reports an error and leaves the row alone.  The handler awaits the
\* call and never looks at its result.
LogUpdate(i, patch) ==
  \/ /\ parsing_logs' = UpdateLogs(parsing_logs, logData[i], patch)
     /\ hist' = [hist EXCEPT ![i].updIssued = @ + 1, ![i].updApplied = @ + 1,
                             ![i].updBeforeResolve = @ \/ ~hist[i].resolved]
  \/ /\ parsing_logs' = parsing_logs
     /\ hist' = [hist EXCEPT ![i].updIssued = @ + 1,
                             ![i].updBeforeResolve = @ \/ ~hist[i].resolved]

\* insert(fields).select().single() on shipment_orders, accepted.
ShipmentInsertAccepted(i) ==
  LET row == NewShipmentRow(Len(shipment_orders) + 1, ShipmentFields(extractedData[i], req[i]))
  IN  /\ shipment_orders' = Append(shipment_orders, row)
      /\ shipmentData' = [shipmentData EXCEPT ![i] = row]

\* ------------------------------------------------------------ the handler
\* serve: an OPTIONS request is answered at once; otherwise await req.json().
Receive(i) ==
  /\ pc[i] = "start"
  /\ UNCHANGED <<logData, extractedText, extractedData, shipmentData,
                 shipmentError, parsing_logs, shipment_orders, hist>>
  /\ \/ /\ Return(i, PreflightResponse, "preflight")
        /\ UNCHANGED req
     \/ /\ Catch(i, MsgBadBody, "badBody")
        /\ UNCHANGED req
     \/ \E r \in Requests(i) :
          /\ req' = [req EXCEPT ![i] = r]
          /\ pc' = [pc EXCEPT ![i] = "insertLog"]
          /\ UNCHANGED <<response, exitPath>>

\* The handler without its `throw logError`: it goes on to the outbound call.
InsertLog_NoThrow(i) ==
  /\ pc[i] = "insertLog"
  /\ UNCHANGED <<req, extractedText, extractedData, shipmentData,
                 shipmentError, shipment_orders, response, exitPath>>
  /\ hist' = [hist EXCEPT ![i].logInserts = @ + 1]
  /\ pc' = [pc EXCEPT ![i] = "fetch"]
  /\ \/ LogInsertAccepted(i)
     \/ UNCHANGED <<parsing_logs, logData>>

\* Create initial parsing log; throw logError when the store reports one.
InsertLog(i) ==
  /\ pc[i] = "insertLog"
  /\ UNCHANGED <<req, extractedText, extractedData, shipmentData,
                 shipmentError, shipment_orders>>
  /\ hist' = [hist EXCEPT ![i].logInserts = @ + 1]
  /\ \/ /\ LogInsertAccepted(i)
        /\ pc' = [pc EXCEPT ![i] = "fetch"]
        /\ UNCHANGED <<response, exitPath>>
     \/ /\ UNCHANGED <<parsing_logs, logData>>
        /\ Catch(i, MsgLogError, "logError")

\* The outbound call moved in front of the parsing_logs insert.
CallUpstream_BeforeLog(i) ==
  /\ pc[i] \in {"insertLog", "fetch"}
  /\ pc' = [pc EXCEPT ![i] = "awaitFetch"]
  /\ hist' = [hist EXCEPT ![i].calls = @ + 1,
                          ![i].loggedAtCall =
                             \E k \in DOMAIN parsing_logs : parsing_logs[k].id = logData[i]]
  /\ UNCHANGED <<req, logData, extractedText, extractedData, shipmentData,
                 shipmentError, response, exitPath, parsing_logs, shipment_orders>>

\* fetch('https://api.openai.com/v1/chat/completions', ...) is issued.
CallUpstream(i) ==
  /\ pc[i] = "fetch"
  /\ pc' = [pc EXCEPT ![i] = "awaitFetch"]
  /\ hist' = [hist EXCEPT ![i].calls = @ + 1,
                          ![i].loggedAtCall =
                             \E k \in DOMAIN parsing_logs : parsing_logs[k].id = logData[i]]
  /\ UNCHANGED <<req, logData, extractedText, extractedData, shipmentData,
                 shipmentError, response, exitPath, parsing_logs, shipment_orders>>

\* The outbound call that is issued once more after it was rejected.
FetchSettles_Retry(i) ==
  /\ pc[i] = "awaitFetch"
  /\ hist' = [hist EXCEPT ![i].resolved = TRUE]
  /\ UNCHANGED <<req, logData, extractedText, extractedData, shipmentData,
                 shipmentError, parsing_logs, shipment_orders>>
  /\ \/ /\ pc' = [pc EXCEPT ![i] = "fetch"]
        /\ UNCHANGED <<response, exitPath>>
     \/ \E st \in UpstreamErrorStatuses : Catch(i, UpstreamMsg(st), "upstreamStatus")
     \/ /\ pc' = [pc EXCEPT ![i] = "readBody"]
        /\ UNCHANGED <<response, exitPath>>

\* The fetch settles: it rejects, or resolves with a status; !response.ok
\* throws an Error carrying the status.
FetchSettles(i) ==
  /\ pc[i] = "awaitFetch"
  /\ hist' = [hist EXCEPT ![i].resolved = TRUE]
  /\ UNCHANGED <<req, logData, extractedText, extractedData, shipmentData,
                 shipmentError, parsing_logs, shipment_orders>>
  /\ \/ Catch(i, MsgFetchThrew, "fetchThrew")
     \/ \E st \in UpstreamErrorStatuses : Catch(i, UpstreamMsg(st), "upstreamStatus")
     \/ /\ pc' = [pc EXCEPT ![i] = "readBody"]
        /\ UNCHANGED <<response, exitPath>>

\* await response.json(), choices[0].message.content, JSON.parse and the
\* required-field check, up to the store call the handler awaits next.
ReadBody(i) ==
  /\ pc[i] = "readBody"
  /\ UNCHANGED <<req, logData, shipmentData, shipmentError, parsing_logs,
                 shipment_orders, hist>>
  /\ \/ /\ Catch(i, MsgDecodeThrew, "decodeThrew")
        /\ UNCHANGED <<extractedText, extractedData>>
     \/ \E text \in UpstreamTexts :
          LET parsed == JSONParse(text) IN
          /\ extractedText' = [extractedText EXCEPT ![i] = text]
          /\ IF ~parsed.ok
             THEN /\ pc' = [pc EXCEPT ![i] = "updParseFailed"]
                  /\ UNCHANGED <<extractedData, response, exitPath>>
             ELSE /\ extractedData' = [extractedData EXCEPT ![i] = parsed.value]
                  /\ IF ThrowsOnAccess(parsed.value)
                     THEN Catch(i, MsgTypeError, "typeError")
                     ELSE /\ pc' = [pc EXCEPT ![i] =
                                      IF MissingRequired(parsed.value)
                                      THEN "updMissing" ELSE "insertShipment"]
                          /\ UNCHANGED <<response, exitPath>>

\* catch (parseError): update the log, then throw.
UpdateParseFailed(i) ==
  /\ pc[i] = "updParseFailed"
  /\ LogUpdate(i, PatchParseFailed(extractedText[i]))
  /\ Catch(i, MsgNotJson, "invalidFormat")
  /\ UNCHANGED <<req, logData, extractedText, extractedData, shipmentData,
                 shipmentError, shipment_orders>>

\* Missing required fields: update the log, then throw.
UpdateMissing(i) ==
  /\ pc[i] = "updMissing"
  /\ LogUpdate(i, PatchMissing(extractedData[i]))
  /\ Catch(i, MsgMissing, "missingFields")
  /\ UNCHANGED <<req, logData, extractedText, extractedData, shipmentData,
                 shipmentError, shipment_orders>>

\* Insert shipment order.
InsertShipment(i) ==
  /\ pc[i] = "insertShipment"
  /\ hist' = [hist EXCEPT ![i].shipInserts = @ + 1]
  /\ UNCHANGED <<req, logData, extractedText, extractedData, response,
                 exitPath, parsing_logs>>
  /\ \/ /\ ShipmentInsertAccepted(i)
        /\ pc' = [pc EXCEPT ![i] = "updSuccess"]
        /\ UNCHANGED shipmentError
     \/ /\ shipmentError' = [shipmentError EXCEPT ![i] = MsgShipmentError]
        /\ pc' = [pc EXCEPT ![i] = "updStoreFailed"]
        /\ UNCHANGED <<shipment_orders, shipmentData>>

\* if (shipmentError): update the log, then throw shipmentError.
UpdateStoreFailed(i) ==
  /\ pc[i] = "updStoreFailed"
  /\ LogUpdate(i, PatchStoreFailed(shipmentError[i], extractedData[i]))
  /\ Catch(i, shipmentError[i], "storeError")
  /\ UNCHANGED <<req, logData, extractedText, extractedData, shipmentData,
                 shipmentError, shipment_orders>>

\* Update parsing log with success, then return the success response.
UpdateSuccess(i) ==
  /\ pc[i] = "updSuccess"
  /\ LogUpdate(i, PatchSuccess(extractedData[i]))
  /\ Return(i, SuccessResponse(shipmentData[i], extractedData[i]), "success")
  /\ UNCHANGED <<req, logData, extractedText, extractedData, shipmentData,
                 shipmentError, shipment_orders>>

Next ==
  \E i \in Invocations :
    \/ Receive(i) /\ UNCHANGED uiVars
    \/ InsertLog(i) /\ UNCHANGED uiVars
    \/ CallUpstream(i) /\ UNCHANGED uiVars
    \/ FetchSettles(i) /\ UNCHANGED uiVars
    \/ ReadBody(i) /\ UNCHANGED uiVars
    \/ UpdateParseFailed(i) /\ UNCHANGED uiVars
    \/ UpdateMissing(i) /\ UNCHANGED uiVars
    \/ InsertShipment(i) /\ UNCHANGED uiVars
    \/ UpdateStoreFailed(i) /\ UNCHANGED uiVars
    \/ UpdateSuccess(i) /\ UNCHANGED uiVars

Spec == Init /\ [][Next]_allVars

\* ------------------------------------------------- the shipments table
\* The options of the edit dialog's status Select.
StatusOptions == {"pending", "processing", "shipped", "delivered", "cancelled"}

\* parseFloat of a text that is no number.
NaN == [t |-> "nan", s |-> "", n |-> 0]

\* The form whose status field is a free-text input instead of the Select.
FormInputs_FreeText(c) ==
  CASE c = "customer_name"  -> {JStr(""), JStr("Eve Fox")}
    [] c = "address"        -> {JStr(""), JStr("7 Ash Ln")}
    [] c = "tracking_id"    -> {JStr("TRK-9")}
    [] c = "delivery_date"  -> {JStr(""), JStr("2025-10-01")}
    [] c = "package_weight" -> {NaN, JNum(1235)}
    [] c = "notes"          -> {JStr("call first")}
    [] c = "status"         -> StatusOptions \cup {"archived"}

\* What an input's onChange can put into a field of the form: e.target.value
\* of the text and date inputs, parseFloat(e.target.value) of the weight.
FormInputs(c) ==
  CASE c = "customer_name"  -> {JStr(""), JStr("Eve Fox")}
    [] c = "address"        -> {JStr(""), JStr("7 Ash Ln")}
    [] c = "tracking_id"    -> {JStr("TRK-9")}
    [] c = "delivery_date"  -> {JStr(""), JStr("2025-10-01")}
    [] c = "package_weight" -> {NaN, JNum(1235)}
    [] c = "notes"          -> {JStr("call first")}
    [] c = "status"         -> StatusOptions

\* setEditForm({...}) of handleEdit: the seven fields of the row.
FormOf(shipment) == [c \in EditableColumns |-> shipment[c]]

\* JSON.stringify of the form as the request body: NaN is written as null.
ToJsonBody(form) ==
  [c \in EditableColumns |-> IF c = "package_weight" /\ form[c] = NaN THEN JNull ELSE form[c]]

\* Column types of shipment_orders on an update: customer_name and address
\* NOT NULL, delivery_date date (the empty string is no date).
ShipmentPatchAllowed(patch) ==
  /\ patch.customer_name # JNull
  /\ patch.address # JNull
  /\ patch.delivery_date # JStr("")

\* The row as stored: package_weight is decimal(10,2).
StoredShipment(row) == [row EXCEPT !.package_weight = AsNumeric(@)]

\* The update with its .eq('id', ...) filter left out: every row is patched.
UpdateShipments_AllRows(rows, id, patch) ==
  [k \in DOMAIN rows |-> StoredShipment(ApplyPatch(rows[k], patch))]

\* update(patch).eq('id', id) on shipment_orders.
UpdateShipments(rows, id, patch) ==
  [k \in DOMAIN rows |->
     IF rows[k].id = id THEN StoredShipment(ApplyPatch(rows[k], patch)) ELSE rows[k]]

\* select('*').order('created_at', { ascending: false }): newest row first.
NewestFirst(rows) == [k \in 1..Len(rows) |-> rows[Len(rows) + 1 - k]]

\* fetchShipments, on mount, on a change notification, or as onRefresh:
\* setShipments(data || []).
RefreshShipments ==
  /\ shipments # NewestFirst(shipment_orders)
  /\ shipments' = NewestFirst(shipment_orders)
  /\ UNCHANGED <<vars, uploadVars, viewVars, saveResult,
                 editingShipment, editForm, saving, saveCall, formChanges>>

\* handleEdit(shipment), the dialog's trigger on a row of the list.
HandleEdit(k) ==
  /\ k \in DOMAIN shipments
  /\ editingShipment' = shipments[k]
  /\ editForm' = FormOf(shipments[k])
  /\ UNCHANGED <<vars, uploadVars, viewVars, saveResult,
                 shipments, saving, saveCall, formChanges>>

\* onChange of a field of the open dialog: setEditForm({...editForm, [c]: v}).
ChangeField(c, v) ==
  /\ editForm # NoForm
  /\ formChanges < MaxFormChanges
  /\ editForm[c] # v
  /\ editForm' = [editForm EXCEPT ![c] = v]
  /\ formChanges' = formChanges + 1
  /\ UNCHANGED <<vars, uploadVars, viewVars, saveResult,
                 shipments, editingShipment, saving, saveCall>>

\* The Cancel button: setEditingShipment(null).
CancelEdit ==
  /\ editingShipment # NoShipment
  /\ editingShipment' = NoShipment
  /\ UNCHANGED <<vars, uploadVars, viewVars, saveResult,
                 shipments, editForm, saving, saveCall, formChanges>>

\* handleSave up to its await: the Save button is disabled while saving, and
\* without an editingShipment the function returns at once.
HandleSave ==
  /\ ~saving
  /\ editingShipment # NoShipment
  /\ saving' = TRUE
  /\ saveCall' = [active |-> TRUE, id |-> editingShipment.id, patch |-> ToJsonBody(editForm)]
  /\ UNCHANGED <<vars, uploadVars, viewVars, saveResult,
                 shipments, editingShipment, editForm, formChanges>>

\* The handleSave whose form also carries the row's original_file_name.
SaveSettles_WritesFileName ==
  /\ saveCall.active
  /\ saving' = FALSE
  /\ saveCall' = NoSaveCall
  /\ UNCHANGED <<pc, req, logData, extractedText, extractedData, shipmentData,
                 shipmentError, response, exitPath, parsing_logs, hist,
                 shipments, editForm, formChanges, uploadVars, viewVars>>
  /\ \/ /\ ShipmentPatchAllowed(saveCall.patch)
        /\ shipment_orders' =
             UpdateShipments(shipment_orders, saveCall.id,
                             [c \in EditableColumns \cup {"original_file_name"} |->
                                IF c = "original_file_name" THEN NULL ELSE saveCall.patch[c]])
        /\ editingShipment' = NoShipment
        /\ saveResult' = [outcome |-> "applied", refreshCalls |-> 1]
     \/ /\ UNCHANGED <<shipment_orders, editingShipment>>
        /\ saveResult' = [outcome |-> "rejected", refreshCalls |-> 0]

\* The handleSave that does not look at the update's error: it closes the
\* dialog and calls onRefresh whatever the store answered.
SaveSettles_IgnoresError ==
  /\ saveCall.active
  /\ saving' = FALSE
  /\ saveCall' = NoSaveCall
  /\ UNCHANGED <<pc, req, logData, extractedText, extractedData, shipmentData,
                 shipmentError, response, exitPath, parsing_logs, hist,
                 shipments, editForm, formChanges, uploadVars, viewVars>>
  /\ editingShipment' = NoShipment
  /\ \/ /\ ShipmentPatchAllowed(saveCall.patch)
        /\ shipment_orders' = UpdateShipments(shipment_orders, saveCall.id, saveCall.patch)
        /\ saveResult' = [outcome |-> "applied", refreshCalls |-> 1]
     \/ /\ UNCHANGED shipment_orders
        /\ saveResult' = [outcome |-> "rejected", refreshCalls |-> 1]

\* The awaited update settles.  Applied: toast, setEditingShipment(null),
\* onRefresh().  Rejected: the catch's toast.  finally: setSaving(false).
\* saveResult keeps which of the two happened and how often onRefresh was
\* called.
SaveSettles ==
  /\ saveCall.active
  /\ saving' = FALSE
  /\ saveCall' = NoSaveCall
  /\ UNCHANGED <<pc, req, logData, extractedText, extractedData, shipmentData,
                 shipmentError, response, exitPath, parsing_logs, hist,
                 shipments, editForm, formChanges, uploadVars, viewVars>>
  /\ \/ /\ ShipmentPatchAllowed(saveCall.patch)
        /\ shipment_orders' = UpdateShipments(shipment_orders, saveCall.id, saveCall.patch)
        /\ editingShipment' = NoShipment
        /\ saveResult' = [outcome |-> "applied", refreshCalls |-> 1]
     \/ /\ UNCHANGED <<shipment_orders, editingShipment>>
        /\ saveResult' = [outcome |-> "rejected", refreshCalls |-> 0]

\* A store as earlier extractions left it: two file uploads and one pasted
\* text, of which the second found no customer name.
SeedRequests == <<FileRequest, FileRequest, EmailRequest>>
SeedTexts == <<TextJane, TextNoName, TextFull>>
SeedData(n) == JSONParse(SeedTexts[n]).value
SeedLogs ==
  LET fresh == [n \in 1..3 |-> NewLogRow(n, LogFields(SeedRequests[n]))]
      one   == UpdateLogs(fresh, 1, PatchSuccess(SeedData(1)))
      two   == UpdateLogs(one, 2, PatchMissing(SeedData(2)))
  IN  UpdateLogs(two, 3, PatchSuccess(SeedData(3)))
SeedShipments ==
  <<NewShipmentRow(1, ShipmentFields(SeedData(1), SeedRequests[1])),
    NewShipmentRow(2, ShipmentFields(SeedData(3), SeedRequests[3]))>>

\* The invocation that runs while the table is in use, a file upload, and
\* what the upstream answers it.
LiveInvocation == 1
TableTexts == {TextSorry, TextNoName, TextZero}

InitTable ==
  /\ pc = [i \in Invocations |-> "start"]
  /\ req = [i \in Invocations |-> NoRequest]
  /\ logData = [i \in Invocations |-> 0]
  /\ extractedText = [i \in Invocations |-> <<>>]
  /\ extractedData = [i \in Invocations |-> Undefined]
  /\ shipmentData = [i \in Invocations |-> NoShipment]
  /\ shipmentError = [i \in Invocations |-> NULL]
  /\ response = [i \in Invocations |-> NoResponse]
  /\ exitPath = [i \in Invocations |-> "none"]
  /\ hist = [i \in Invocations |-> NoHist]
  /\ parsing_logs = SeedLogs
  /\ shipment_orders = SeedShipments
  /\ TableInit
  /\ UploadInit
  /\ ViewInit

NextTable ==
  \/ /\ Receive(LiveInvocation)
     /\ req'[LiveInvocation] = FileRequest
     /\ UNCHANGED uiVars
  \/ InsertLog(LiveInvocation) /\ UNCHANGED uiVars
  \/ CallUpstream(LiveInvocation) /\ UNCHANGED uiVars
  \/ FetchSettles(LiveInvocation) /\ UNCHANGED uiVars
  \/ /\ ReadBody(LiveInvocation)
     /\ \/ exitPath'[LiveInvocation] = "decodeThrew"
        \/ extractedText'[LiveInvocation] \in TableTexts
     /\ UNCHANGED uiVars
  \/ UpdateParseFailed(LiveInvocation) /\ UNCHANGED uiVars
  \/ UpdateMissing(LiveInvocation) /\ UNCHANGED uiVars
  \/ InsertShipment(LiveInvocation) /\ UNCHANGED uiVars
  \/ UpdateStoreFailed(LiveInvocation) /\ UNCHANGED uiVars
  \/ UpdateSuccess(LiveInvocation) /\ UNCHANGED uiVars
  \/ RefreshShipments
  \/ \E k \in DOMAIN shipments : HandleEdit(k)
  \/ \E c \in EditableColumns : \E v \in FormInputs(c) : ChangeField(c, v)
  \/ CancelEdit
  \/ HandleSave
  \/ SaveSettles

SpecTable == InitTable /\ [][NextTable]_allVars

\* ---------------------------------------------------------- file upload
\* The file the user chooses and the text the user pastes.
TheFile == [name |-> "order.txt", text |-> FileRequest.fileContent]
EmailInputs == {"   ", FileRequest.fileContent}

\* String.prototype.trim on the texts above.
Trim(text) == IF text = "   " THEN "" ELSE text

\* Date.now() as flow n reads it: later flows read later times.
Now(n) == n

\* `${Date.now()}-${file.name}`, getPublicUrl(filePath), `email-${Date.now()}.txt`
FilePath(now, name) == ToString(now) \o "-" \o name
PublicUrl(path) == "https://files/shipment-files/" \o path
EmailFileName(now) == "email-" \o ToString(now) \o ".txt"

\* The body of extractDataFromFile's invoke: fileUrl || null.
InvokeBody(content, name, url) ==
  [fileContent |-> content, fileName |-> name, fileUrl |-> IF url = "" THEN NULL ELSE url]

MsgStorageError == "new row violates row-level security policy"
MsgReadError    == "Failed to read file"
MsgHttpError    == "Edge Function returned a non-2xx status code"
MsgRelayError   == "Failed to send a request to the Edge Function"

\* What the upstream answers while the upload component is in use.
UploadTexts == {TextSorry, TextNoName, TextJane}

\* The flow a new upload or extraction becomes: flows are numbered in the
\* order they start, and flow n is served by invocation n.
NextFlow == Cardinality({i \in Invocations : flow[i].kind # "none"}) + 1

\* The textarea's onChange; it is disabled while uploading.
TypeEmail(text) ==
  /\ ~uploading
  /\ emailContent # text
  /\ emailContent' = text
  /\ UNCHANGED <<vars, tableVars, viewVars, uploading, progress, processingState, upc, cur,
                 fileRef, fileText, timers, toasts, storage, flow>>

\* handleFileUpload up to `await uploadFile(file)`; "Choose File" is
\* disabled while uploading.
StartFile ==
  /\ ~uploading
  /\ NextFlow \in Invocations
  /\ uploading' = TRUE
  /\ progress' = 25
  /\ processingState' = "uploading"
  /\ upc' = "awaitUpload"
  /\ cur' = NextFlow
  /\ fileRef' = ""
  /\ fileText' = ""
  /\ flow' = [flow EXCEPT ![NextFlow].kind = "file", ![NextFlow].uploads = @ + 1]
  /\ UNCHANGED <<vars, tableVars, viewVars, emailContent, timers, toasts, storage>>

\* catch of either flow: 'error', the failure toast, the 3 s reset timer;
\* finally: setUploading(false).
Fail(title, msg, outcome) ==
  /\ processingState' = "error"
  /\ toasts' = [toasts EXCEPT ![cur] = [title |-> title, description |-> msg]]
  /\ timers' = timers + 1
  /\ uploading' = FALSE
  /\ upc' = "idle"
  /\ cur' = 0
  /\ flow' = [flow EXCEPT ![cur].outcome = outcome]
  /\ UNCHANGED <<progress, emailContent, fileRef, fileText>>

FailTitle == IF flow[cur].kind = "file" THEN "Upload Failed" ELSE "Processing Failed"

\* The upload that goes on to read the file although the store rejected it.
UploadSettles_IgnoresError ==
  /\ upc = "awaitUpload"
  /\ UNCHANGED <<vars, tableVars, viewVars, uploading, emailContent, cur, fileText,
                 timers, toasts>>
  /\ flow' = [flow EXCEPT ![cur].reads = @ + 1]
  /\ progress' = 50
  /\ processingState' = "extracting"
  /\ upc' = "awaitRead"
  /\ fileRef' = PublicUrl(FilePath(Now(cur), TheFile.name))
  /\ \/ storage' = storage \cup {FilePath(Now(cur), TheFile.name)}
     \/ UNCHANGED storage

\* storage.upload settles: if (error) throw error; otherwise getPublicUrl,
\* setProgress(50), 'extracting', and the read of the file begins.
UploadSettles ==
  /\ upc = "awaitUpload"
  /\ UNCHANGED <<vars, tableVars, viewVars>>
  /\ \/ /\ storage' = storage \cup {FilePath(Now(cur), TheFile.name)}
        /\ fileRef' = PublicUrl(FilePath(Now(cur), TheFile.name))
        /\ progress' = 50
        /\ processingState' = "extracting"
        /\ upc' = "awaitRead"
        /\ flow' = [flow EXCEPT ![cur].reads = @ + 1]
        /\ UNCHANGED <<uploading, emailContent, cur, fileText, timers, toasts>>
     \/ /\ Fail(FailTitle, MsgStorageError, "storeError")
        /\ UNCHANGED storage

\* readFileContent settles: onload resolves with the text, setProgress(75)
\* and the extraction request is sent; onerror rejects.
ReadSettles ==
  /\ upc = "awaitRead"
  /\ UNCHANGED <<vars, tableVars, viewVars, storage>>
  /\ \/ /\ fileText' = TheFile.text
        /\ progress' = 75
        /\ upc' = "awaitInvoke"
        /\ flow' = [flow EXCEPT ![cur].sent = @ + 1]
        /\ UNCHANGED <<uploading, processingState, emailContent, cur, fileRef,
                       timers, toasts>>
     \/ Fail(FailTitle, MsgReadError, "readError")

\* The pasted-text body carrying the url of the last uploaded file.
EmailBody_WithFileRef(content, now) == InvokeBody(content, EmailFileName(now), fileRef)

\* extractDataFromFile(emailContent, fileName): no fileUrl.
EmailBody(content, now) == InvokeBody(content, EmailFileName(now), "")

\* The handleEmailExtraction that can be started while a flow is running.
StartEmail_WhileUploading ==
  /\ Trim(emailContent) # ""
  /\ NextFlow \in Invocations
  /\ uploading' = TRUE
  /\ progress' = 50
  /\ processingState' = "extracting"
  /\ upc' = "awaitInvoke"
  /\ cur' = NextFlow
  /\ fileText' = emailContent
  /\ flow' = [flow EXCEPT ![NextFlow].kind = "email", ![NextFlow].sent = @ + 1]
  /\ UNCHANGED <<vars, tableVars, viewVars, emailContent, fileRef, timers, toasts, storage>>

\* handleEmailExtraction up to `await extractDataFromFile(...)`; the button
\* is disabled while uploading or while the text is blank.
StartEmail ==
  /\ ~uploading
  /\ Trim(emailContent) # ""
  /\ NextFlow \in Invocations
  /\ uploading' = TRUE
  /\ progress' = 50
  /\ processingState' = "extracting"
  /\ upc' = "awaitInvoke"
  /\ cur' = NextFlow
  /\ fileText' = emailContent
  /\ flow' = [flow EXCEPT ![NextFlow].kind = "email", ![NextFlow].sent = @ + 1]
  /\ UNCHANGED <<vars, tableVars, viewVars, emailContent, fileRef, timers, toasts, storage>>

\* The request of the running flow reaches the handler: await req.json()
\* yields the body the component sent.
RequestArrives(i) ==
  /\ upc = "awaitInvoke"
  /\ cur = i
  /\ pc[i] = "start"
  /\ req' = [req EXCEPT ![i] =
               IF flow[i].kind = "file"
               THEN InvokeBody(fileText, TheFile.name, fileRef)
               ELSE EmailBody(fileText, Now(i))]
  /\ pc' = [pc EXCEPT ![i] = "insertLog"]
  /\ UNCHANGED <<logData, extractedText, extractedData, shipmentData, shipmentError,
                 response, exitPath, parsing_logs, shipment_orders, hist, uiVars>>

\* What functions.invoke resolves with: { data, error: null } for a 2xx
\* response, { data: null, error } with the client's own message for any
\* other status or when the request could not be sent.
InvokeResult(i) ==
  IF pc[i] # "done" THEN [data |-> NoResponse, error |-> MsgRelayError]
  ELSE IF response[i].status \in 200..299 THEN [data |-> response[i], error |-> NULL]
  ELSE [data |-> NoResponse, error |-> MsgHttpError]

\* invoke settles.  if (error) throw error; if (!result.success) throw new
\* Error(result.error || 'Failed to extract data'); otherwise 100,
\* 'complete', the success toast, onUploadComplete(), the 2 s reset timer.
InvokeSettles ==
  /\ upc = "awaitInvoke"
  /\ pc[cur] \in {"start", "done"}
  /\ UNCHANGED <<vars, tableVars, viewVars, storage>>
  /\ LET result == InvokeResult(cur) IN
     IF result.error # NULL
     THEN Fail(FailTitle, result.error,
               IF pc[cur] = "done" THEN "httpError" ELSE "relayError")
     ELSE IF ~result.data.success
     THEN Fail(FailTitle,
               IF result.data.error \in {NULL, ""} THEN "Failed to extract data"
               ELSE result.data.error,
               "notSuccess")
     ELSE /\ progress' = 100
          /\ processingState' = "complete"
          /\ toasts' = [toasts EXCEPT ![cur] =
               [title |-> "Success!",
                description |-> "Extracted shipment data for "
                                  \o Get(result.data.extractedData, "customer_name").s]]
          /\ emailContent' = IF flow[cur].kind = "email" THEN "" ELSE emailContent
          /\ timers' = timers + 1
          /\ uploading' = FALSE
          /\ upc' = "idle"
          /\ cur' = 0
          /\ flow' = [flow EXCEPT ![cur].outcome = "complete"]
          /\ UNCHANGED <<fileRef, fileText>>

\* A scheduled reset fires: setProcessingState('idle'); setProgress(0).
TimerFires ==
  /\ timers > 0
  /\ timers' = timers - 1
  /\ processingState' = "idle"
  /\ progress' = 0
  /\ UNCHANGED <<vars, tableVars, viewVars, uploading, emailContent, upc, cur, fileRef,
                 fileText, toasts, storage, flow>>

NextUpload ==
  \/ \E text \in EmailInputs : TypeEmail(text)
  \/ StartFile
  \/ UploadSettles
  \/ ReadSettles
  \/ StartEmail
  \/ InvokeSettles
  \/ TimerFires
  \/ \E i \in Invocations :
       \/ RequestArrives(i)
       \/ InsertLog(i) /\ UNCHANGED uiVars
       \/ CallUpstream(i) /\ UNCHANGED uiVars
       \/ FetchSettles(i) /\ UNCHANGED uiVars
       \/ /\ ReadBody(i)
          /\ \/ exitPath'[i] = "decodeThrew"
             \/ extractedText'[i] \in UploadTexts
          /\ UNCHANGED uiVars
       \/ UpdateParseFailed(i) /\ UNCHANGED uiVars
       \/ UpdateMissing(i) /\ UNCHANGED uiVars
       \/ InsertShipment(i) /\ UNCHANGED uiVars
       \/ UpdateStoreFailed(i) /\ UNCHANGED uiVars
       \/ UpdateSuccess(i) /\ UNCHANGED uiVars

SpecUpload == Init /\ [][NextUpload]_allVars

\* ------------------------------------------------ the dashboard's list
\* The steps of the invocation that runs while a view is in use.
LiveHandlerStep ==
  \/ Receive(LiveInvocation) /\ req'[LiveInvocation] = FileRequest
  \/ InsertLog(LiveInvocation)
  \/ CallUpstream(LiveInvocation)
  \/ FetchSettles(LiveInvocation)
  \/ /\ ReadBody(LiveInvocation)
     /\ \/ exitPath'[LiveInvocation] = "decodeThrew"
        \/ extractedText'[LiveInvocation] \in TableTexts
  \/ UpdateParseFailed(LiveInvocation)
  \/ UpdateMissing(LiveInvocation)
  \/ InsertShipment(LiveInvocation)
  \/ UpdateStoreFailed(LiveInvocation)
  \/ UpdateSuccess(LiveInvocation)

\* A fetchShipments call between its start and its await's resolution: the
\* select has been sent, or the store has answered it with the rows it held
\* at that moment (ok) or with an error.
NewFetch(n) == [n |-> n, phase |-> "sent", ok |-> TRUE, data |-> <<>>]

\* fetchShipments() is called: the select is sent.
IssueFetch ==
  /\ issued < MaxFetches
  /\ issued' = issued + 1
  /\ fetches' = fetches \cup {NewFetch(issued + 1)}
  /\ storeChanged' = FALSE

\* The effect on mount: fetchShipments() and the subscription to channel
\* 'shipment_orders'.
Mount ==
  /\ ~mounted
  /\ mounted' = TRUE
  /\ IssueFetch
  /\ UNCHANGED <<vars, tableVars, uploadVars, monitorVars, filterVars, renderVars,
                 loading, notifications, fetchFailed, uploadsSeen>>

\* The channel's callback for one postgres_changes event: fetchShipments().
OnShipmentChange ==
  /\ mounted
  /\ notifications > 0
  /\ notifications' = notifications - 1
  /\ IssueFetch
  /\ UNCHANGED <<vars, tableVars, uploadVars, monitorVars, filterVars, renderVars,
                 mounted, loading, fetchFailed, uploadsSeen>>

\* FileUpload's onUploadComplete={fetchShipments}, called once by the flow
\* whose invocation answered with success.
OnUploadComplete(i) ==
  /\ mounted
  /\ pc[i] = "done"
  /\ response[i].success
  /\ i \notin uploadsSeen
  /\ uploadsSeen' = uploadsSeen \cup {i}
  /\ IssueFetch
  /\ UNCHANGED <<vars, tableVars, uploadVars, monitorVars, filterVars, renderVars,
                 mounted, loading, notifications, fetchFailed>>

\* ShipmentTable's Refresh button, onRefresh={fetchShipments}, disabled
\* while loading.
ManualRefresh ==
  /\ mounted
  /\ ~loading
  /\ IssueFetch
  /\ UNCHANGED <<vars, tableVars, uploadVars, monitorVars, filterVars, renderVars,
                 mounted, loading, notifications, fetchFailed, uploadsSeen>>

\* The store runs the select of a call and answers it.
FetchAnswered(f) ==
  /\ f \in fetches
  /\ f.phase = "sent"
  /\ \/ fetches' = (fetches \ {f}) \cup
                     {[f EXCEPT !.phase = "answered", !.data = NewestFirst(shipment_orders)]}
     \/ fetches' = (fetches \ {f}) \cup {[f EXCEPT !.phase = "answered", !.ok = FALSE]}
  /\ UNCHANGED <<vars, tableVars, uploadVars, monitorVars, filterVars, renderVars,
                 mounted, loading, issued, notifications, storeChanged, fetchFailed,
                 uploadsSeen>>

\* The await of a call resolves, in whatever order the answers arrive:
\* if (error) throw error; setShipments(data || []); catch: the toast;
\* finally: setLoading(false).
FetchResolves(f) ==
  /\ f \in fetches
  /\ f.phase = "answered"
  /\ fetches' = fetches \ {f}
  /\ loading' = FALSE
  /\ IF f.ok
     THEN shipments' = f.data /\ UNCHANGED fetchFailed
     ELSE UNCHANGED shipments /\ fetchFailed' = TRUE
  /\ UNCHANGED <<vars, editingShipment, editForm, saving, saveCall, formChanges,
                 saveResult, uploadVars, monitorVars, filterVars, renderVars,
                 mounted, issued, notifications, storeChanged, uploadsSeen>>

\* What the Dashboard's channel sees of a step of the handler: one event
\* per change of shipment_orders.
DashObserves ==
  /\ notifications' = IF mounted /\ shipment_orders' # shipment_orders
                      THEN notifications + 1 ELSE notifications
  /\ storeChanged' = (storeChanged \/ shipment_orders' # shipment_orders)
  /\ UNCHANGED <<mounted, loading, fetches, issued, fetchFailed, uploadsSeen>>

NextDashboard ==
  \/ /\ LiveHandlerStep
     /\ DashObserves
     /\ UNCHANGED <<tableVars, uploadVars, monitorVars, filterVars, renderVars>>
  \/ Mount
  \/ OnShipmentChange
  \/ \E i \in Invocations : OnUploadComplete(i)
  \/ ManualRefresh
  \/ \E f \in fetches : FetchAnswered(f)
  \/ \E f \in fetches : FetchResolves(f)

SpecDashboard == InitTable /\ [][NextDashboard]_allVars

\* -------------------------------------------------- the monitoring panel
\* What a query of the panel resolves to: { data | count, error }.  The
\* client returns the error in the result; it does not throw.
Answer(v) == [ok |-> TRUE, v |-> v]
NoAnswer == [ok |-> FALSE, v |-> 0]

\* count || 0 and parsingStats?.filter(...).length || 0
OrZero(answer) == IF answer.ok THEN answer.v ELSE 0

\* parsingStats.filter(log => log.status === status).length
CountStatus(rows, status) == Cardinality({k \in DOMAIN rows : rows[k].status = status})

\* The rows created today: those the running invocation inserts; the rows
\* the store held before are of earlier days.
TodayCount(rows) == Len(rows) - Len(SeedShipments)

\* .order('created_at', { ascending: false }).limit(20)
NewestTwenty(rows) ==
  LET all == NewestFirst(rows) IN IF Len(all) > 20 THEN SubSeq(all, 1, 20) ELSE all

\* A call of fetchParsingLogs or fetchSystemStats that has not settled:
\* which call it is, whether fetchData awaits it, how many of its queries
\* the store has answered, and the answers.
LogsCall(n, batch) ==
  [n |-> n, kind |-> "logs", batch |-> batch, step |-> 0,
   total |-> NoAnswer, success |-> NoAnswer, failed |-> NoAnswer,
   processing |-> NoAnswer, today |-> NoAnswer]
StatsCall(n, batch) == [LogsCall(n, batch) EXCEPT !.kind = "stats"]

\* fetchData: setLoading(true) and Promise.all of the two fetches.
FetchData ==
  /\ panelIssued + 2 <= MaxPanelCalls
  /\ panelIssued' = panelIssued + 2
  /\ panelLoading' = TRUE
  /\ panelCalls' = panelCalls \cup {LogsCall(panelIssued + 1, TRUE),
                                     StatsCall(panelIssued + 2, TRUE)}

\* The effect on mount: fetchData() and the subscription to 'monitoring'.
PanelMount ==
  /\ ~panelMounted
  /\ panelMounted' = TRUE
  /\ FetchData
  /\ UNCHANGED <<vars, tableVars, uploadVars, dashVars, filterVars, renderVars,
                 parsingLogs, systemStats, logEvents, shipEvents, queryFailed>>

\* The Refresh button: onClick={fetchData}, disabled while loading.
PanelRefresh ==
  /\ panelMounted
  /\ ~panelLoading
  /\ FetchData
  /\ UNCHANGED <<vars, tableVars, uploadVars, dashVars, filterVars, renderVars,
                 parsingLogs, systemStats, panelMounted, logEvents, shipEvents,
                 queryFailed>>

\* The callback for a parsing_logs event: fetchParsingLogs(), and nothing
\* else.
OnLogEvent ==
  /\ panelMounted
  /\ logEvents > 0
  /\ panelIssued < MaxPanelCalls
  /\ logEvents' = logEvents - 1
  /\ panelIssued' = panelIssued + 1
  /\ panelCalls' = panelCalls \cup {LogsCall(panelIssued + 1, FALSE)}
  /\ UNCHANGED <<vars, tableVars, uploadVars, dashVars, filterVars, renderVars,
                 parsingLogs, systemStats, panelMounted, panelLoading, shipEvents,
                 queryFailed>>

\* The callback for a shipment_orders event: fetchSystemStats().
OnShipEvent ==
  /\ panelMounted
  /\ shipEvents > 0
  /\ panelIssued < MaxPanelCalls
  /\ shipEvents' = shipEvents - 1
  /\ panelIssued' = panelIssued + 1
  /\ panelCalls' = panelCalls \cup {StatsCall(panelIssued + 1, FALSE)}
  /\ UNCHANGED <<vars, tableVars, uploadVars, dashVars, filterVars, renderVars,
                 parsingLogs, systemStats, panelMounted, panelLoading, logEvents,
                 queryFailed>>

\* await Promise.all(...) of fetchData resolves with the last of its two
\* calls: setLoading(false).
LoadingAfter(c) ==
  IF c.batch /\ ~\E d \in panelCalls \ {c} : d.batch THEN FALSE ELSE panelLoading

\* fetchParsingLogs settles: if (error) throw error;
\* setParsingLogs(data || []); the catch only toasts.
LogsSettles(c) ==
  /\ c \in panelCalls
  /\ c.kind = "logs"
  /\ panelCalls' = panelCalls \ {c}
  /\ panelLoading' = LoadingAfter(c)
  /\ \/ parsingLogs' = NewestTwenty(parsing_logs) /\ UNCHANGED queryFailed
     \/ UNCHANGED parsingLogs /\ queryFailed' = TRUE
  /\ UNCHANGED <<vars, tableVars, uploadVars, dashVars, filterVars, renderVars,
                 systemStats, panelMounted, panelIssued, logEvents, shipEvents>>

\* The next of fetchSystemStats' three awaited queries is answered: the
\* count of shipment_orders, the statuses of parsing_logs, the count of
\* today's shipment_orders.  An error leaves count or data null.
StatsQuery(c) ==
  /\ c \in panelCalls
  /\ c.kind = "stats"
  /\ c.step < 3
  /\ \/ /\ panelCalls' = (panelCalls \ {c}) \cup
             {CASE c.step = 0 ->
                     [c EXCEPT !.step = 1, !.total = Answer(Len(shipment_orders))]
                [] c.step = 1 ->
                     [c EXCEPT !.step = 2,
                               !.success = Answer(CountStatus(parsing_logs, "success")),
                               !.failed = Answer(CountStatus(parsing_logs, "failed")),
                               !.processing = Answer(CountStatus(parsing_logs, "processing"))]
                [] c.step = 2 ->
                     [c EXCEPT !.step = 3, !.today = Answer(TodayCount(shipment_orders))]}
        /\ UNCHANGED queryFailed
     \/ /\ panelCalls' = (panelCalls \ {c}) \cup {[c EXCEPT !.step = c.step + 1]}
        /\ queryFailed' = TRUE
  /\ UNCHANGED <<vars, tableVars, uploadVars, dashVars, filterVars, renderVars,
                 parsingLogs, systemStats, panelMounted, panelLoading, panelIssued,
                 logEvents, shipEvents>>

\* fetchSystemStats after its third await: setSystemStats({...}) with
\* `|| 0` for whatever is null.  No query's error is looked at.
StatsSettles(c) ==
  /\ c \in panelCalls
  /\ c.kind = "stats"
  /\ c.step = 3
  /\ panelCalls' = panelCalls \ {c}
  /\ panelLoading' = LoadingAfter(c)
  /\ systemStats' = [totalShipments    |-> OrZero(c.total),
                     successfulParsing |-> OrZero(c.success),
                     failedParsing     |-> OrZero(c.failed),
                     processingParsing |-> OrZero(c.processing),
                     todayShipments    |-> OrZero(c.today)]
  /\ UNCHANGED <<vars, tableVars, uploadVars, dashVars, filterVars, renderVars,
                 parsingLogs, panelMounted, panelIssued, logEvents, shipEvents,
                 queryFailed>>

\* What the panel's channel sees of a step of the handler: one event per
\* change of parsing_logs, one per change of shipment_orders.
PanelObserves ==
  /\ logEvents' = IF panelMounted /\ parsing_logs' # parsing_logs
                  THEN logEvents + 1 ELSE logEvents
  /\ shipEvents' = IF panelMounted /\ shipment_orders' # shipment_orders
                   THEN shipEvents + 1 ELSE shipEvents
  /\ UNCHANGED <<parsingLogs, systemStats, panelMounted, panelLoading, panelCalls,
                 panelIssued, queryFailed>>

NextMonitor ==
  \/ /\ LiveHandlerStep
     /\ PanelObserves
     /\ UNCHANGED <<tableVars, uploadVars, dashVars, filterVars, renderVars>>
  \/ PanelMount
  \/ PanelRefresh
  \/ OnLogEvent
  \/ OnShipEvent
  \/ \E c \in panelCalls : LogsSettles(c)
  \/ \E c \in panelCalls : StatsQuery(c)
  \/ \E c \in panelCalls : StatsSettles(c)

SpecMonitor == InitTable /\ [][NextMonitor]_allVars

\* ------------------------------------------------ the table's filter
\* The initial state of the handler with an empty store.
IdleHandler ==
  /\ pc = [i \in Invocations |-> "start"]
  /\ req = [i \in Invocations |-> NoRequest]
  /\ logData = [i \in Invocations |-> 0]
  /\ extractedText = [i \in Invocations |-> <<>>]
  /\ extractedData = [i \in Invocations |-> Undefined]
  /\ shipmentData = [i \in Invocations |-> NoShipment]
  /\ shipmentError = [i \in Invocations |-> NULL]
  /\ response = [i \in Invocations |-> NoResponse]
  /\ exitPath = [i \in Invocations |-> "none"]
  /\ parsing_logs = <<>>
  /\ shipment_orders = <<>>
  /\ hist = [i \in Invocations |-> NoHist]

\* Texts as sequences of characters, so that toLowerCase and includes
\* work on them as they do on strings.
Letters == {"a", "A", "b", "B"}
Terms == UNION {[1..n -> Letters] : n \in 0..MaxTermLen}

\* String.prototype.toLowerCase
ToLowerCase(text) ==
  [k \in DOMAIN text |-> CASE text[k] = "A" -> "a" [] text[k] = "B" -> "b" [] OTHER -> text[k]]

\* String.prototype.includes
Includes(text, part) ==
  \E k \in 0..(Len(text) - Len(part)) : SubSeq(text, k + 1, k + Len(part)) = part

\* A column value that may be null.
NullText == [null |-> TRUE, s |-> <<>>]
Text(s) == [null |-> FALSE, s |-> s]

\* The shipments the table may be handed: the columns the filter reads.
ListedShipments ==
  {[id |-> 1, customer_name |-> <<"A", "b">>, address |-> <<"b", "a">>,
    tracking_id |-> NullText, status |-> "pending"],
   [id |-> 2, customer_name |-> <<"b">>, address |-> <<"a">>,
    tracking_id |-> Text(<<"A", "B">>), status |-> "shipped"],
   [id |-> 3, customer_name |-> <<"a">>, address |-> <<>>,
    tracking_id |-> Text(<<>>), status |-> "pending"]}
ShipmentLists ==
  {l \in UNION {[1..n -> ListedShipments] : n \in 0..MaxRows} :
     \A i, j \in DOMAIN l : i # j => l[i].id # l[j].id}

\* The items of the status filter's Select.
FilterOptions == {"all"} \cup StatusOptions

\* The filter that compares the texts as they are typed.
MatchesSearch_CaseSensitive(shipment, term) ==
  \/ Includes(shipment.customer_name, term)
  \/ Includes(shipment.address, term)
  \/ /\ ~shipment.tracking_id.null
     /\ shipment.tracking_id.s # <<>>
     /\ Includes(shipment.tracking_id.s, term)

\* matchesSearch: the name, the address, or the tracking id when it is
\* truthy (neither null nor ''), lower-cased, includes the lower-cased term.
MatchesSearch(shipment, term) ==
  \/ Includes(ToLowerCase(shipment.customer_name), ToLowerCase(term))
  \/ Includes(ToLowerCase(shipment.address), ToLowerCase(term))
  \/ /\ ~shipment.tracking_id.null
     /\ shipment.tracking_id.s # <<>>
     /\ Includes(ToLowerCase(shipment.tracking_id.s), ToLowerCase(term))

\* matchesStatus
MatchesStatus(shipment, filter) == filter = "all" \/ shipment.status = filter

\* filteredShipments = shipments.filter(...), computed at every render.
FilteredShipments ==
  LET Keep(shipment) == MatchesSearch(shipment, searchTerm)
                          /\ MatchesStatus(shipment, statusFilter)
  IN  SelectSeq(shipments, Keep)

\* The Export CSV button's disabled={filteredShipments.length === 0}.
ExportDisabled == Len(FilteredShipments) = 0

\* One line of the CSV, of the columns the filter reads:
\* tracking_id || ''.
CsvLine(shipment) ==
  <<shipment.customer_name, shipment.address,
    IF shipment.tracking_id.null THEN <<>> ELSE shipment.tracking_id.s,
    shipment.status>>

\* onChange of the search input, onValueChange of the status Select.
SetSearchTerm(term) ==
  /\ searchTerm # term
  /\ searchTerm' = term
  /\ UNCHANGED <<vars, tableVars, uploadVars, dashVars, monitorVars, renderVars,
                 statusFilter, csv>>

SetStatusFilter(filter) ==
  /\ statusFilter # filter
  /\ statusFilter' = filter
  /\ UNCHANGED <<vars, tableVars, uploadVars, dashVars, monitorVars, renderVars,
                 searchTerm, csv>>

\* exportToCSV: one line per filtered shipment, in the list's order.
ExportToCSV ==
  /\ ~ExportDisabled
  /\ csv' = [k \in DOMAIN FilteredShipments |-> CsvLine(FilteredShipments[k])]
  /\ UNCHANGED <<vars, tableVars, uploadVars, dashVars, monitorVars, renderVars,
                 searchTerm, statusFilter>>

InitFilter ==
  /\ IdleHandler
  /\ UploadInit
  /\ DashInit
  /\ MonitorInit
  /\ RenderInit
  /\ shipments \in ShipmentLists
  /\ editingShipment = NoShipment
  /\ editForm = NoForm
  /\ saving = FALSE
  /\ saveCall = NoSaveCall
  /\ formChanges = 0
  /\ saveResult = NoSaveResult
  /\ searchTerm \in Terms
  /\ statusFilter \in FilterOptions
  /\ csv = <<>>

NextFilter ==
  \/ \E term \in Terms : SetSearchTerm(term)
  \/ \E filter \in FilterOptions : SetStatusFilter(filter)
  \/ ExportToCSV

SpecFilter == InitFilter /\ [][NextFilter]_allVars

\* ------------------------------------------------ the panel's rendering
\* JavaScript numbers are IEEE 754 doubles.  A positive double is kept as
\* its 53 significand bits, most significant first, and the exponent e of
\* the last bit: its value is m * 2^e.
SignificandBits == 53

RECURSIVE BitsToNat(_)
BitsToNat(bits) ==
  IF bits = <<>> THEN 0
  ELSE 2 * BitsToNat(SubSeq(bits, 1, Len(bits) - 1)) + bits[Len(bits)]

Reverse(bits) == [k \in 1..Len(bits) |-> bits[Len(bits) + 1 - k]]
Zeros(k) == [j \in 1..k |-> 0]

\* bits + 1; one bit longer when every bit was 1.
RECURSIVE Increment(_)
Increment(bits) ==
  IF bits = <<>> THEN <<1>>
  ELSE IF bits[Len(bits)] = 0
       THEN SubSeq(bits, 1, Len(bits) - 1) \o <<1>>
       ELSE Increment(SubSeq(bits, 1, Len(bits) - 1)) \o <<0>>

\* Round to nearest, ties to even: the exact value is bits * 2^e, plus
\* something below the last bit when `more`.
RoundToDouble(bits, e, more) ==
  LET keep   == SubSeq(bits, 1, SignificandBits)
      rest   == SubSeq(bits, SignificandBits + 1, Len(bits))
      half   == rest # <<>> /\ rest[1] = 1
      sticky == more \/ \E k \in 2..Len(rest) : rest[k] = 1
      up     == half /\ (sticky \/ keep[SignificandBits] = 1)
      m      == IF up THEN Increment(keep) ELSE keep
  IN  IF Len(m) > SignificandBits
      THEN [m |-> SubSeq(m, 1, SignificandBits), e |-> e + Len(rest) + 1]
      ELSE [m |-> m, e |-> e + Len(rest)]

\* The next `count` bits of r / n, for r < n, followed by what remains
\* of r.
RECURSIVE QuotientBits(_, _, _)
QuotientBits(r, n, count) ==
  IF count = 0 THEN <<r>>
  ELSE LET b == IF 2 * r >= n THEN 1 ELSE 0
       IN  <<b>> \o QuotientBits(2 * r - b * n, n, count - 1)

\* The least k with a * 2^k >= n.
RECURSIVE LeadingShift(_, _)
LeadingShift(a, n) == IF a >= n THEN 0 ELSE 1 + LeadingShift(2 * a, n)

RECURSIVE TwoTo(_)
TwoTo(k) == IF k = 0 THEN 1 ELSE 2 * TwoTo(k - 1)

\* a / n in doubles, for integers 0 < a <= n.
Divide(a, n) ==
  LET k == LeadingShift(a, n)
      q == QuotientBits(a * TwoTo(k) - n, n, SignificandBits)
  IN  RoundToDouble(<<1>> \o SubSeq(q, 1, SignificandBits), -(SignificandBits + k),
                    q[SignificandBits + 1] > 0)

\* Sum of two naturals given by their bits, least significant first.
RECURSIVE AddBits(_, _, _)
AddBits(a, b, carry) ==
  IF a = <<>> /\ b = <<>> THEN (IF carry = 1 THEN <<1>> ELSE <<>>)
  ELSE LET x == IF a = <<>> THEN 0 ELSE Head(a)
           y == IF b = <<>> THEN 0 ELSE Head(b)
           t == x + y + carry
       IN  <<t % 2>> \o AddBits(IF a = <<>> THEN a ELSE Tail(a),
                                IF b = <<>> THEN b ELSE Tail(b), t \div 2)

\* d * 100 in doubles: the exact product 64 d + 32 d + 4 d, rounded.
TimesHundred(d) ==
  LET low     == Reverse(d.m)
      product == AddBits(AddBits(Zeros(6) \o low, Zeros(5) \o low, 0),
                         Zeros(2) \o low, 0)
  IN  RoundToDouble(Reverse(product), d.e, FALSE)

\* Math.round of a positive double below 2^52: floor(d + 0.5), exactly.
MathRound(d) ==
  LET whole == SignificandBits + d.e
  IN  IF whole < 0 THEN 0
      ELSE BitsToNat(SubSeq(d.m, 1, whole)) + d.m[whole + 1]

\* successRate: Math.round((successful / (successful + failed)) * 100)
\* when successful + failed > 0, else 0.  0 / n is 0, and 0 * 100 is 0.
SuccessRate(stats) ==
  LET ok  == stats.successfulParsing
      all == stats.successfulParsing + stats.failedParsing
  IN  IF all > 0
      THEN (IF ok = 0 THEN 0 ELSE MathRound(TimesHundred(Divide(ok, all))))
      ELSE 0

\* The two alerts: totalShipments > alertThreshold, failedParsing > 5.
Alerts(stats) ==
  (IF stats.totalShipments > 100 THEN {"volume"} ELSE {})
    \cup (IF stats.failedParsing > 5 THEN {"failures"} ELSE {})

\* The counters the panel may hold when it renders.
StatsInputs ==
  [totalShipments : {0, 100, 101}, successfulParsing : 0..MaxCount,
   failedParsing : 0..MaxCount, processingParsing : {0, 1}, todayShipments : {0}]

\* A render of the panel with the counters it holds.
Render ==
  /\ <<successRate, alerts>> # <<SuccessRate(systemStats), Alerts(systemStats)>>
  /\ successRate' = SuccessRate(systemStats)
  /\ alerts' = Alerts(systemStats)
  /\ UNCHANGED <<vars, tableVars, uploadVars, dashVars, monitorVars, filterVars>>

InitRender ==
  /\ IdleHandler
  /\ TableInit
  /\ UploadInit
  /\ DashInit
  /\ FilterInit
  /\ RenderInit
  /\ parsingLogs = <<>>
  /\ systemStats \in StatsInputs
  /\ panelMounted = TRUE
  /\ panelLoading = FALSE
  /\ panelCalls = {}
  /\ panelIssued = 0
  /\ logEvents = 0
  /\ shipEvents = 0
  /\ queryFailed = FALSE

NextRender == Render

SpecRender == InitRender /\ [][NextRender]_allVars

\* ================================================================ claims
Done(i)       == pc[i] = "done"
HasAttempt(i) == logData[i] # 0 /\ logData[i] \in DOMAIN parsing_logs
Attempt(i)    == parsing_logs[logData[i]]
HasShipment(i) == shipmentData[i].id # 0
ShipmentRowOf(i) == \E k \in DOMAIN shipment_orders : shipment_orders[k].id = shipmentData[i].id

\* customer_name and address present and non-empty, as the spec words it.
NonEmpty(sc) == sc.t = "str" /\ sc.s # ""
PassesValidation(v) ==
  /\ v.t = "object"
  /\ NonEmpty(v.o["customer_name"])
  /\ NonEmpty(v.o["address"])

OptionalKeys == {"tracking_id", "delivery_date", "package_weight", "notes"}
\* What a payload member is as a column value: null when absent.
NullWhenAbsent(sc) == IF sc.t = "absent" THEN JNull ELSE sc

\* C1: every invocation that created its attempt has, by the time it
\* returns, updated that attempt exactly once, to 'success' or 'failed'.
C1_AttemptResolvedOnReturn ==
  \A i \in Invocations :
    (Done(i) /\ HasAttempt(i)) =>
      /\ Attempt(i).status \in {"success", "failed"}
      /\ hist[i].updApplied = 1

\* C2 as claimed: a shipment row exists iff some attempt is 'success' with a
\* payload that passed validation, and no shipment row exists while the
\* attempt of the invocation that created it is still 'processing'.
C2_ShipmentIffSuccess ==
  /\ (shipment_orders # <<>>) <=>
       (\E k \in DOMAIN parsing_logs :
           /\ parsing_logs[k].status = "success"
           /\ PassesValidation(parsing_logs[k].extracted_data))
  /\ \A i \in Invocations :
       (HasShipment(i) /\ ShipmentRowOf(i)) => Attempt(i).status # "processing"

\* C2 amended: every shipment row was inserted by an invocation whose payload
\* passed validation and whose attempt is 'success', or still 'processing'
\* (the invocation stands between the insert and the attempt update, or the
\* store rejected that update) and never 'failed'; and every attempt with
\* status 'success' belongs to an invocation whose shipment row exists.
C2_ShipmentOnlyFromValidatedAttempt ==
  /\ \A k \in DOMAIN shipment_orders :
       \E i \in Invocations :
         /\ shipmentData[i].id = shipment_orders[k].id
         /\ PassesValidation(extractedData[i])
         /\ HasAttempt(i)
         /\ \/ Attempt(i).status = "success"
            \/ /\ Attempt(i).status = "processing"
               /\ pc[i] = "updSuccess" \/ (Done(i) /\ hist[i].updApplied = 0)
  /\ \A k \in DOMAIN parsing_logs :
       parsing_logs[k].status = "success" =>
         /\ PassesValidation(parsing_logs[k].extracted_data)
         /\ \E i \in Invocations :
              logData[i] = parsing_logs[k].id /\ HasShipment(i) /\ ShipmentRowOf(i)

C2_Witness ==
  \E i \in Invocations :
    /\ HasShipment(i) /\ ShipmentRowOf(i)
    /\ HasAttempt(i) /\ Attempt(i).status = "success"
    /\ \E j \in Invocations : j # i /\ HasAttempt(j) /\ Attempt(j).status = "failed"

\* C3: a non-success upstream status marks the attempt 'failed' with the
\* upstream status in its error message, creates no shipment, is surfaced
\* to the caller, and the outbound call is not issued a second time.
C3_UpstreamStatusRecorded ==
  \A i \in Invocations :
    exitPath[i] = "upstreamStatus" =>
      /\ Attempt(i).status = "failed"
      /\ \E st \in UpstreamErrorStatuses : Attempt(i).error_message = UpstreamMsg(st)
      /\ ~HasShipment(i) /\ hist[i].shipInserts = 0
      /\ response[i].status = 500 /\ ~response[i].success
      /\ hist[i].calls = 1

\* C4: the shipment record extract inserts and returns carries the payload's
\* values, an optional field null exactly when the payload lacks it, status
\* 'pending', parsed_by_ai true and the request's file name and URL.
C4_ShipmentEqualsPayload ==
  \A i \in Invocations :
    HasShipment(i) =>
      /\ shipmentData[i].customer_name = Get(extractedData[i], "customer_name")
      /\ shipmentData[i].address = Get(extractedData[i], "address")
      /\ \A key \in OptionalKeys :
           shipmentData[i][key] = NullWhenAbsent(Get(extractedData[i], key))
      /\ shipmentData[i].status = "pending"
      /\ shipmentData[i].parsed_by_ai
      /\ shipmentData[i].original_file_name = req[i].fileName
      /\ shipmentData[i].original_file_url = req[i].fileUrl
      /\ \E k \in DOMAIN shipment_orders : shipment_orders[k] = shipmentData[i]

\* C5: a success response means exactly one attempt exists for the
\* invocation, with status 'success' and the parsed object as its snapshot.
C5_SuccessResponseMeansSuccessAttempt ==
  \A i \in Invocations :
    response[i].success =>
      /\ hist[i].logInserts = 1 /\ HasAttempt(i)
      /\ Attempt(i).status = "success"
      /\ Attempt(i).extracted_data = extractedData[i]

\* C6: upstream text that is not JSON ends the invocation with the
\* invalid-format failure, its attempt 'failed' with the parse message and
\* the snapshot {raw_response: text}, and no shipment record.
C6_InvalidFormatRecorded ==
  \A i \in Invocations :
    (Done(i) /\ extractedText[i] # <<>> /\ ~JSONParse(extractedText[i]).ok) =>
      /\ response[i].status = 500 /\ response[i].error = MsgNotJson
      /\ Attempt(i).status = "failed"
      /\ Attempt(i).error_message = MsgParseFailed
      /\ Attempt(i).extracted_data = RawResponse(extractedText[i])
      /\ ~HasShipment(i) /\ hist[i].shipInserts = 0

\* C7: upstream text that parses to any JSON value lacking a non-empty
\* customer_name or address ends the invocation with the missing-fields
\* failure, its attempt 'failed' with the missing-fields message and the
\* parsed value as snapshot, and no shipment record.
C7_MissingFieldsRecorded ==
  \A i \in Invocations :
    (/\ Done(i)
     /\ extractedText[i] # <<>>
     /\ JSONParse(extractedText[i]).ok
     /\ ~PassesValidation(JSONParse(extractedText[i]).value)) =>
      /\ response[i].status = 500 /\ response[i].error = MsgMissing
      /\ Attempt(i).status = "failed"
      /\ Attempt(i).error_message = MsgMissing
      /\ Attempt(i).extracted_data = JSONParse(extractedText[i]).value
      /\ ~HasShipment(i) /\ hist[i].shipInserts = 0

\* C8: a rejected shipment insert marks the attempt 'failed' with the
\* store's message and the parsed object as snapshot, the store error is
\* returned to the caller, and the invocation has no shipment record.
C8_StoreErrorRecorded ==
  \A i \in Invocations :
    (Done(i) /\ shipmentError[i] # NULL) =>
      /\ Attempt(i).status = "failed"
      /\ Attempt(i).error_message = shipmentError[i]
      /\ Attempt(i).extracted_data = extractedData[i]
      /\ response[i].status = 500 /\ response[i].error = shipmentError[i]
      /\ ~HasShipment(i)

\* C9: the attempt is in the store, 'processing', when the outbound call is
\* issued; it is updated only after the call has settled; no call is issued
\* by an invocation without a persisted attempt.
C9_AttemptBeforeCallBeforeUpdate ==
  \A i \in Invocations :
    /\ hist[i].calls > 0 => (hist[i].loggedAtCall /\ HasAttempt(i))
    /\ pc[i] = "awaitFetch" => Attempt(i).status = "processing"
    /\ hist[i].updIssued > 0 => hist[i].resolved
    /\ ~hist[i].updBeforeResolve
    /\ (HasAttempt(i) /\ Attempt(i).status # "processing") => hist[i].resolved

C9_Witness ==
  \E i \in Invocations :
    /\ hist[i].calls = 1 /\ hist[i].resolved /\ hist[i].updApplied = 1
    /\ Attempt(i).status \in {"success", "failed"}

\* C10: when creating the attempt fails the handler returns that failure
\* and has done nothing else: no outbound call, no shipment insert, no
\* attempt created or updated.
C10_LogErrorAborts ==
  /\ \A i \in Invocations :
       (hist[i].logInserts > 0 /\ logData[i] = 0) =>
         /\ Done(i) /\ exitPath[i] = "logError"
         /\ response[i] = ErrorResponse(MsgLogError)
         /\ hist[i].logInserts = 1
         /\ hist[i].calls = 0
         /\ hist[i].shipInserts = 0 /\ ~HasShipment(i)
         /\ hist[i].updIssued = 0
  /\ Len(parsing_logs) = Cardinality({i \in Invocations : logData[i] # 0})
  /\ Len(shipment_orders) = Cardinality({i \in Invocations : HasShipment(i)})

C10_Witness ==
  \E i, j \in Invocations :
    /\ exitPath[i] = "logError"
    /\ j # i /\ HasAttempt(j) /\ Done(j)

\* C11: an attempt with status 'failed' has no shipment record of its own
\* invocation, and no row is in shipment_orders that no invocation got back
\* from its insert.
C11_FailedAttemptHasNoShipment ==
  /\ \A i \in Invocations :
       (HasAttempt(i) /\ Attempt(i).status = "failed") =>
         /\ ~HasShipment(i)
         /\ \A k \in DOMAIN shipment_orders :
              \E j \in Invocations : j # i /\ shipmentData[j].id = shipment_orders[k].id
  /\ Len(shipment_orders) = Cardinality({i \in Invocations : HasShipment(i)})

C11_Witness ==
  \E i, j \in Invocations :
    /\ HasAttempt(i) /\ Attempt(i).status = "failed" /\ hist[i].shipInserts = 1
    /\ HasShipment(j) /\ ShipmentRowOf(j)

\* What an invocation's attempt and exit are when it runs alone on the same
\* request, upstream answer and store answers.
FreshAttempt(i) == NewLogRow(logData[i], LogFields(req[i]))
SoloPath(i) ==
  LET parsed == JSONParse(extractedText[i]) IN
  IF ~parsed.ok THEN "invalidFormat"
  ELSE IF parsed.value.t = "null" THEN "typeError"
  ELSE IF ~PassesValidation(parsed.value) THEN "missingFields"
  ELSE IF shipmentError[i] # NULL THEN "storeError"
  ELSE "success"
SoloAttempt(i) ==
  LET value == JSONParse(extractedText[i]).value IN
  IF hist[i].updApplied = 0 THEN FreshAttempt(i)
  ELSE CASE exitPath[i] = "invalidFormat" ->
              ApplyPatch(FreshAttempt(i), PatchParseFailed(extractedText[i]))
         [] exitPath[i] = "missingFields" ->
              ApplyPatch(FreshAttempt(i), PatchMissing(value))
         [] exitPath[i] = "storeError" ->
              ApplyPatch(FreshAttempt(i), PatchStoreFailed(shipmentError[i], value))
         [] exitPath[i] = "success" ->
              ApplyPatch(FreshAttempt(i), PatchSuccess(value))
         [] OTHER -> FreshAttempt(i)

\* C14: under every interleaving each invocation's attempt row is what its
\* own request, upstream answer and store answers make it, it is updated at
\* most once and by its own invocation only, its shipment row is the one
\* built from its own payload and request, and distinct invocations hold
\* distinct attempts and shipments.
C14_InvocationsIndependent ==
  /\ \A i \in Invocations :
       /\ hist[i].updApplied <= 1
       /\ HasAttempt(i) => Attempt(i) = SoloAttempt(i)
       /\ (Done(i) /\ extractedText[i] # <<>>) => exitPath[i] = SoloPath(i)
       /\ HasShipment(i) =>
            /\ shipmentData[i].id \in DOMAIN shipment_orders
            /\ shipment_orders[shipmentData[i].id] =
                 NewShipmentRow(shipmentData[i].id,
                                ShipmentFields(extractedData[i], req[i]))
  /\ \A i, j \in Invocations :
       i # j =>
         /\ (logData[i] # 0 => logData[i] # logData[j])
         /\ (HasShipment(i) => shipmentData[i].id # shipmentData[j].id)
  /\ Len(parsing_logs) = Cardinality({i \in Invocations : logData[i] # 0})
  /\ Len(shipment_orders) = Cardinality({i \in Invocations : HasShipment(i)})

C14_Witness ==
  \E i, j \in Invocations :
    /\ i # j /\ Done(i) /\ Done(j)
    /\ logData[i] > logData[j] /\ logData[j] > 0
    /\ hist[i].updApplied = 1 /\ hist[j].updApplied = 1
    /\ Attempt(i).status = "success" /\ Attempt(j).status = "failed"

\* The failures the wrapper answers, and the message each carries.
FailurePaths == {"badBody", "logError", "fetchThrew", "upstreamStatus", "decodeThrew",
                 "typeError", "invalidFormat", "missingFields", "storeError"}
FailureMessages(i) ==
  CASE exitPath[i] = "badBody"        -> {MsgBadBody}
    [] exitPath[i] = "logError"       -> {MsgLogError}
    [] exitPath[i] = "fetchThrew"     -> {MsgFetchThrew}
    [] exitPath[i] = "upstreamStatus" -> {UpstreamMsg(st) : st \in UpstreamErrorStatuses}
    [] exitPath[i] = "decodeThrew"    -> {MsgDecodeThrew}
    [] exitPath[i] = "typeError"      -> {MsgTypeError}
    [] exitPath[i] = "invalidFormat"  -> {MsgNotJson}
    [] exitPath[i] = "missingFields"  -> {MsgMissing}
    [] exitPath[i] = "storeError"     -> {shipmentError[i]}
    [] OTHER -> {}

\* C15: every request but a preflight is answered either 200 with
\* success=true and the persisted shipment record, and only when the
\* shipment was persisted, or 500 with success=false and the failure's
\* message; no failure is answered with success=true or with 200.
C15_UniformResponses ==
  \A i \in Invocations :
    (Done(i) /\ exitPath[i] # "preflight") =>
      \/ /\ exitPath[i] = "success"
         /\ response[i].status = 200 /\ response[i].success
         /\ HasShipment(i) /\ ShipmentRowOf(i)
         /\ response[i].shipmentOrder = shipmentData[i]
         /\ response[i].error = NULL
      \/ /\ exitPath[i] \in FailurePaths
         /\ response[i].status = 500 /\ ~response[i].success
         /\ response[i].error \in FailureMessages(i)
         /\ response[i].shipmentOrder = NoShipment
         /\ ~HasShipment(i)

C15_Witness ==
  \E i, j \in Invocations :
    /\ Done(i) /\ exitPath[i] = "success"
    /\ Done(j) /\ exitPath[j] \in FailurePaths

\* ------------------------------------------------------------------- C12
\* C12: an attempt's status changes only from 'processing' to 'success' or
\* to 'failed'; a step of the program (the handler's catch, another
\* invocation, a saved shipment edit, a refresh of a list) leaves a resolved
\* attempt's status, error message and payload snapshot as they are, and no
\* step removes an attempt.
Resolved(row) == row.status \in {"success", "failed"}

AttemptStep ==
  \A k \in DOMAIN parsing_logs :
    /\ k \in DOMAIN parsing_logs'
    /\ parsing_logs'[k].id = parsing_logs[k].id
    /\ Resolved(parsing_logs[k]) => parsing_logs'[k] = parsing_logs[k]
    /\ parsing_logs'[k].status # parsing_logs[k].status =>
         parsing_logs[k].status = "processing" /\ Resolved(parsing_logs'[k])

C12_ResolvedAttemptIsFinal == [][AttemptStep]_allVars

\* The live invocation resolved its attempt next to the attempts of earlier
\* invocations, a shipment edit was saved and the list refreshed.
C12_Witness ==
  /\ Done(LiveInvocation)
  /\ HasAttempt(LiveInvocation)
  /\ Attempt(LiveInvocation).status = "failed"
  /\ \A k \in DOMAIN SeedLogs : parsing_logs[k] = SeedLogs[k]
  /\ \E k \in DOMAIN SeedShipments : shipment_orders[k] # SeedShipments[k]
  /\ shipments = NewestFirst(shipment_orders)

\* ------------------------------------------------------------------- C19
\* C19: every shipment record in the store has a non-empty customer name
\* and a non-empty address, after any extractions and any edits saved
\* through handleSave.
C19_ShipmentsNamedAndAddressed ==
  \A k \in DOMAIN shipment_orders :
    NonEmpty(shipment_orders[k].customer_name) /\ NonEmpty(shipment_orders[k].address)

\* ------------------------------------------------------------------- C20
\* C20: shipment records are created only by the handler's insert of a
\* validated payload, in an invocation that answers with success, never by
\* a step of the UI; a saved edit changes only the seven form columns of
\* the row whose id it names; every other column and every other row stay
\* as they are.
ShipmentStep ==
  /\ Len(shipment_orders') >= Len(shipment_orders)
  /\ Len(shipment_orders') > Len(shipment_orders) =>
       /\ tableVars' = tableVars
       /\ \E i \in Invocations :
            /\ pc[i] = "insertShipment"
            /\ PassesValidation(extractedData[i])
            /\ shipmentData'[i] = shipment_orders'[Len(shipment_orders')]
  /\ \A k \in DOMAIN shipment_orders :
       /\ \A c \in (DOMAIN shipment_orders[k]) \ EditableColumns :
            shipment_orders'[k][c] = shipment_orders[k][c]
       /\ shipment_orders'[k] # shipment_orders[k] =>
            /\ saveCall.active
            /\ ~saveCall'.active
            /\ shipment_orders[k].id = saveCall.id

C20_OnlyExtractionCreatesOnlyEditChanges ==
  /\ [](\A i \in Invocations : HasShipment(i) /\ Done(i) => exitPath[i] = "success")
  /\ [][ShipmentStep]_allVars

\* One of the earlier rows was edited and saved, the other is as it was,
\* and the live invocation has added a row of its own.
C20_Witness ==
  /\ \E k \in DOMAIN SeedShipments :
       /\ shipment_orders[k] # SeedShipments[k]
       /\ \A j \in DOMAIN SeedShipments : j # k => shipment_orders[j] = SeedShipments[j]
  /\ Len(shipment_orders) = Len(SeedShipments) + 1
  /\ exitPath[LiveInvocation] = "success"

\* ------------------------------------------------------------------- C13
\* C13: an invocation that got past the creation of its attempt issues
\* exactly one outbound call and at most one shipment insert; a failure is
\* final: the handler does not call again, and the upload component sends
\* one extraction request per flow (and uploads the file once), so no
\* invocation runs without a flow having sent for it.
C13_OneCallOneRequest ==
  \A i \in Invocations :
    /\ hist[i].calls <= 1
    /\ hist[i].shipInserts <= 1
    /\ Done(i) /\ HasAttempt(i) => hist[i].calls = 1
    /\ flow[i].sent <= 1
    /\ flow[i].uploads <= 1
    /\ pc[i] # "start" => flow[i].sent = 1

\* A flow whose invocation failed after its one outbound call has ended,
\* its reset has fired, and the next flow has been started by the user.
C13_Witness ==
  /\ flow[1].outcome = "httpError"
  /\ HasAttempt(1)
  /\ hist[1].calls = 1
  /\ timers = 0
  /\ flow[2].kind # "none"

\* ------------------------------------------------------------------- C16
\* C16: a flow that failed has raised a failure toast whose description is
\* the message of its failure: the file store's, the reader's, and for a
\* failure response of the endpoint the error the endpoint answered with;
\* and processingState went to 'error'.
FailedFlow(i) == flow[i].outcome \notin {"none", "complete"}

FailureMessage(i) ==
  CASE flow[i].outcome = "storeError" -> MsgStorageError
    [] flow[i].outcome = "readError"  -> MsgReadError
    [] flow[i].outcome = "relayError" -> MsgRelayError
    [] OTHER -> response[i].error

C16_FailureToastShowsCause ==
  \A i \in Invocations :
    FailedFlow(i) =>
      /\ toasts[i].title \in {"Upload Failed", "Processing Failed"}
      /\ toasts[i].description = FailureMessage(i)

\* ------------------------------------------------------------------- C17
\* C17: a pasted-text flow makes no call to the file store, its request
\* carries fileUrl null and the name email-<time>.txt, and the attempt and
\* the shipment created from it have a null file reference.
C17_TextFlowHasNoFile ==
  \A i \in Invocations :
    flow[i].kind = "email" =>
      /\ flow[i].uploads = 0
      /\ flow[i].reads = 0
      /\ pc[i] # "start" =>
           req[i].fileUrl = NULL /\ req[i].fileName = EmailFileName(Now(i))
      /\ HasAttempt(i) =>
           Attempt(i).file_url = NULL /\ Attempt(i).file_name = EmailFileName(Now(i))
      /\ HasShipment(i) =>
           \A k \in DOMAIN shipment_orders :
             shipment_orders[k].id = shipmentData[i].id =>
               shipment_orders[k].original_file_url = NULL

\* A pasted-text flow has ended with a shipment, after a file flow that
\* left its file in the store.
C17_Witness ==
  \E i \in Invocations :
    /\ flow[i].kind = "email"
    /\ flow[i].outcome = "complete"
    /\ HasShipment(i)
    /\ storage # {}

\* ------------------------------------------------------------------- C18
\* C18: a file flow that the file store rejected, or whose file could not
\* be read, ended in the error handler after one upload call, sent no
\* extraction request, and no attempt and no shipment exist for it; a file
\* flow's request is sent only with the file stored and its text read.
C18_NoRequestWithoutStoredReadFile ==
  /\ \A i \in Invocations :
       flow[i].kind = "file" =>
         /\ flow[i].outcome \in {"storeError", "readError"} =>
              /\ flow[i].uploads = 1
              /\ flow[i].sent = 0
              /\ pc[i] = "start"
              /\ ~HasAttempt(i)
              /\ ~HasShipment(i)
         /\ flow[i].outcome = "storeError" => flow[i].reads = 0
         /\ flow[i].sent > 0 =>
              /\ FilePath(Now(i), TheFile.name) \in storage
              /\ flow[i].reads = 1
              /\ cur = i => fileText = TheFile.text
              /\ pc[i] # "start" =>
                   /\ req[i].fileContent = TheFile.text
                   /\ req[i].fileUrl = PublicUrl(FilePath(Now(i), TheFile.name))
  /\ Len(parsing_logs) = Cardinality({j \in Invocations : logData[j] # 0})
  /\ Len(shipment_orders) = Cardinality({j \in Invocations : HasShipment(j)})

\* One file flow was rejected by the file store and another could not be
\* read; both have ended and neither reached the handler.
C18_Witness ==
  /\ \E i \in Invocations : flow[i].outcome = "storeError"
  /\ \E i \in Invocations : flow[i].outcome = "readError" /\ storage # {}
  /\ cur = 0
  /\ parsing_logs = <<>>

\* ------------------------------------------------------------------- C21
\* C21: in every reachable state the status of every shipment record is
\* one of pending, processing, shipped, delivered, cancelled; the record an
\* extraction creates has status 'pending', and a step that changes a
\* record's status is the settling of a saved edit of that record.
StatusStep ==
  /\ Len(shipment_orders') > Len(shipment_orders) =>
       shipment_orders'[Len(shipment_orders')].status = "pending"
  /\ \A k \in DOMAIN shipment_orders :
       shipment_orders'[k].status # shipment_orders[k].status =>
         /\ saveCall.active
         /\ saveCall.id = shipment_orders[k].id
         /\ shipment_orders'[k].status = saveCall.patch.status

C21_StatusIsOneOfFive ==
  /\ [](\A k \in DOMAIN shipment_orders :
          shipment_orders[k].status \in
            {"pending", "processing", "shipped", "delivered", "cancelled"})
  /\ [](\A i \in Invocations : HasShipment(i) => shipmentData[i].status = "pending")
  /\ [][StatusStep]_allVars

\* A saved edit has set an earlier record to 'delivered' and the live
\* invocation has created a record, which is 'pending'.
C21_Witness ==
  /\ \E k \in DOMAIN SeedShipments : shipment_orders[k].status = "delivered"
  /\ HasShipment(LiveInvocation)
  /\ Len(shipment_orders) = Len(SeedShipments) + 1
  /\ shipment_orders[Len(shipment_orders)].status = "pending"

\* ------------------------------------------------------------------- C23
\* C23: while a flow of FileUpload is running (uploading is true),
\* processingState is never 'idle' and no step sets a raised progress back
\* to 0, also when the reset timer of an earlier flow fires meanwhile.
C23_NoResetWhileUploading ==
  /\ [](uploading => processingState # "idle")
  /\ [][(uploading /\ uploading' /\ progress > 0) => progress' > 0]_allVars

\* ------------------------------------------------------------------- C25
\* C25: at most one flow of FileUpload, and so at most one extraction
\* request, is running at any time: uploading is true exactly from the
\* start of a flow to the step that ends it, a flow starts only while
\* uploading is false, and a request being handled is the running flow's.
Running(i) == flow[i].kind # "none" /\ flow[i].outcome = "none"

FlowStep ==
  /\ \A i \in Invocations :
       (~Running(i) /\ Running(i)') => (~uploading /\ uploading' /\ cur' = i)
  /\ \A i \in Invocations :
       (Running(i) /\ ~Running(i)') =>
         (uploading /\ ~uploading' /\ cur = i /\ flow'[i].outcome # "none")
  /\ uploading' # uploading => \E i \in Invocations : Running(i)' # Running(i)

C25_OneFlowAtATime ==
  /\ [](/\ uploading <=> (\E i \in Invocations : Running(i))
        /\ \A i, j \in Invocations : (Running(i) /\ Running(j)) => i = j
        /\ \A i \in Invocations : Running(i) => cur = i
        /\ \A i \in Invocations :
             pc[i] \notin {"start", "done"} => (Running(i) /\ flow[i].sent = 1)
        /\ \A i \in Invocations : flow[i].sent <= 1)
  /\ [][FlowStep]_allVars

\* The second flow's request is being handled, the first flow has ended,
\* and a text is pasted with which an extraction could be started were
\* uploading not true.
C25_Witness ==
  /\ uploading
  /\ \E i \in Invocations :
       /\ Running(i)
       /\ pc[i] = "awaitFetch"
       /\ \E j \in Invocations : j # i /\ flow[j].outcome # "none"
  /\ Trim(emailContent) # ""

\* ------------------------------------------------------------------- C26
\* C26: once a file flow has ended, in 'complete' or in 'error', the file
\* it wrote to the file store is referenced by an attempt record.
C26_StoredFileHasAttempt ==
  \A i \in Invocations :
    (/\ flow[i].kind = "file"
     /\ flow[i].outcome # "none"
     /\ FilePath(Now(i), TheFile.name) \in storage) =>
      \E k \in DOMAIN parsing_logs :
        parsing_logs[k].file_url = PublicUrl(FilePath(Now(i), TheFile.name))

\* ------------------------------------------------------------------- C27
\* C27: a handleSave whose update the store rejects leaves the store, the
\* edited shipment and the form as they were and does not call onRefresh; one
\* whose update is applied clears the edited shipment and calls onRefresh
\* exactly once; both set saving back to false; and no update is issued
\* while no shipment is being edited.
SaveStep ==
  /\ (~saveCall.active /\ saveCall'.active) =>
       /\ editingShipment # NoShipment
       /\ saveCall'.id = editingShipment.id
       /\ saving'
  /\ (saveCall.active /\ ~saveCall'.active) =>
       /\ ~saving'
       /\ editForm' = editForm
       /\ saveResult'.outcome \in {"applied", "rejected"}
       /\ saveResult'.outcome = "rejected" =>
            /\ shipment_orders' = shipment_orders
            /\ editingShipment' = editingShipment
            /\ saveResult'.refreshCalls = 0
       /\ saveResult'.outcome = "applied" =>
            /\ editingShipment' = NoShipment
            /\ saveResult'.refreshCalls = 1
            /\ \A k \in DOMAIN shipment_orders :
                 shipment_orders[k].id = saveCall.id =>
                   \A c \in EditableColumns \ {"package_weight"} :
                     shipment_orders'[k][c] = saveCall.patch[c]
  /\ (saveCall'.active = saveCall.active) => saveResult' = saveResult

C27_HandleSaveOutcomes ==
  /\ [](saving <=> saveCall.active)
  /\ [][SaveStep]_allVars

\* A save was rejected with the dialog open on a changed form: the row is
\* as it was, the dialog still shows it, and the list was not re-fetched.
C27_Witness ==
  /\ saveResult.outcome = "rejected"
  /\ ~saving
  /\ editingShipment # NoShipment
  /\ editForm # FormOf(editingShipment)
  /\ \E k \in DOMAIN shipment_orders :
       shipment_orders[k].id = editingShipment.id /\ shipment_orders[k] = editingShipment

\* ------------------------------------------------------------------- C24
\* C24: whenever no fetchShipments call is in flight, none has failed, and
\* shipment_orders has not changed since the last call was issued, the
\* displayed list equals the store's rows, newest first.
C24_ListEqualsStoreWhenQuiet ==
  (/\ issued > 0
   /\ fetches = {}
   /\ ~storeChanged
   /\ ~fetchFailed) =>
    shipments = NewestFirst(shipment_orders)

\* ------------------------------------------------------------------- C22
\* C22: once the invocation has returned, every change event it caused has
\* been handled and every fetch of the panel has settled, none with an
\* error, the panel's three attempt counters equal the numbers of attempts
\* with status success, failed and processing in the store.
C22_CountersMatchStoreWhenQuiet ==
  (/\ panelMounted
   /\ Done(LiveInvocation)
   /\ logEvents = 0
   /\ shipEvents = 0
   /\ panelCalls = {}
   /\ ~queryFailed) =>
    /\ systemStats.successfulParsing = CountStatus(parsing_logs, "success")
    /\ systemStats.failedParsing = CountStatus(parsing_logs, "failed")
    /\ systemStats.processingParsing = CountStatus(parsing_logs, "processing")

\* ------------------------------------------------------------------- C28
\* C28: a fetchSystemStats call one of whose queries failed leaves
\* systemStats as it was, a fetchParsingLogs call whose query failed leaves
\* parsingLogs as it was, and loading is false whenever no call of
\* fetchData is still running.
FailedStats(c) ==
  /\ c.kind = "stats"
  /\ c.step = 3
  /\ ~(c.total.ok /\ c.success.ok /\ c.today.ok)

PanelStep ==
  /\ \A c \in panelCalls :
       (FailedStats(c) /\ c \notin panelCalls') => systemStats' = systemStats
  /\ \A c \in panelCalls :
       (c.kind = "logs" /\ c \notin panelCalls' /\ queryFailed' /\ ~queryFailed) =>
         parsingLogs' = parsingLogs

C28_FailedQueryKeepsStats ==
  /\ [](panelMounted => (panelLoading <=> \E c \in panelCalls : c.batch))
  /\ [][PanelStep]_allVars

\* ------------------------------------------------------------------- C29
\* C29: the table shows a shipment iff the search term is a
\* case-insensitive substring of its customer name, its address or its
\* non-null tracking id and the status filter is 'all' or its status; the
\* shown rows are a sub-sequence of the list in the list's order; with an
\* empty term and filter 'all' every shipment is shown; the export is
\* disabled exactly when no shipment matches, and exports the shown rows.
SameLetter(a, b) == a = b \/ {a, b} \in {{"a", "A"}, {"b", "B"}}

IsSubstringIgnoringCase(part, text) ==
  \E off \in 0..(Len(text) - Len(part)) :
    \A j \in 1..Len(part) : SameLetter(text[off + j], part[j])

ShouldShow(shipment) ==
  /\ \/ IsSubstringIgnoringCase(searchTerm, shipment.customer_name)
     \/ IsSubstringIgnoringCase(searchTerm, shipment.address)
     \/ /\ ~shipment.tracking_id.null
        /\ IsSubstringIgnoringCase(searchTerm, shipment.tracking_id.s)
  /\ statusFilter \in {"all", shipment.status}

IsSubSequence(part, whole) ==
  \E f \in [DOMAIN part -> DOMAIN whole] :
    /\ \A i \in DOMAIN part : part[i] = whole[f[i]]
    /\ \A i, j \in DOMAIN part : i < j => f[i] < f[j]

C29_FilterShowsExactlyTheMatches ==
  /\ [](/\ \A k \in DOMAIN shipments :
             ShouldShow(shipments[k]) <=>
               \E j \in DOMAIN FilteredShipments : FilteredShipments[j] = shipments[k]
        /\ IsSubSequence(FilteredShipments, shipments)
        /\ (searchTerm = <<>> /\ statusFilter = "all") => FilteredShipments = shipments
        /\ ExportDisabled <=> ~\E k \in DOMAIN shipments : ShouldShow(shipments[k]))
  /\ [][csv' # csv =>
         /\ \E k \in DOMAIN shipments : ShouldShow(shipments[k])
         /\ Len(csv') = Len(FilteredShipments)
         /\ \A k \in DOMAIN csv' :
              /\ csv'[k][1] = FilteredShipments[k].customer_name
              /\ csv'[k][4] = FilteredShipments[k].status]_allVars

\* Three shipments are listed, the term 'aB' in mixed case matches the
\* first by its tracking id and the last by its name and not the one
\* between them, the filter is 'all', and the two were exported in the
\* list's order.
C29_Witness ==
  /\ Len(shipments) = 3
  /\ shipments[1].id = 2
  /\ shipments[2].id = 3
  /\ shipments[3].id = 1
  /\ searchTerm = <<"a", "B">>
  /\ statusFilter = "all"
  /\ Len(FilteredShipments) = 2
  /\ FilteredShipments[1].id = 2
  /\ FilteredShipments[2].id = 1
  /\ Len(csv) = 2
  /\ csv[1][3] = <<"A", "B">>

\* ------------------------------------------------------------------- C30
\* C30: what the panel renders is the success rate
\* round(100 * successful / (successful + failed)), or 0 when both are 0,
\* whatever the number of attempts in 'processing'; it is an integer from
\* 0 to 100; the failure alert shows exactly when failed > 5 and the volume
\* alert exactly when total shipments > 100.
RoundedPercent(ok, all) ==
  CHOOSE r \in 0..100 : 2 * all * r - all <= 200 * ok /\ 200 * ok < 2 * all * r + all

RenderStep ==
  <<successRate, alerts>>' # <<successRate, alerts>> =>
    /\ successRate' \in 0..100
    /\ successRate' =
         IF systemStats.successfulParsing + systemStats.failedParsing > 0
         THEN RoundedPercent(systemStats.successfulParsing,
                             systemStats.successfulParsing + systemStats.failedParsing)
         ELSE 0
    /\ ("failures" \in alerts') <=> (systemStats.failedParsing > 5)
    /\ ("volume" \in alerts') <=> (systemStats.totalShipments > 100)

C30_RateIsRoundedPercentage == [][RenderStep]_allVars

====
